---- MODULE Spec2Model ----
(***************************************************************************)
(* Static-site hosting API: deployment lifecycle (upload, rollback,        *)
(* delete, delete-all, reset), the zip extractor and the static resolver.  *)
(*                                                                         *)
(* Strings are sequences of tokens (each token a short piece of text), so  *)
(* that strings.Contains, strings.HasPrefix and filepath.Clean/Join are    *)
(* computed the way the Go code computes them.  The filesystem is a map    *)
(* from absolute cleaned paths to a directory marker or a file content.    *)
(*                                                                         *)
(* Failures of the environment are injected at the calls whose error       *)
(* result the handlers branch on; a call whose error result is discarded   *)
(* in the source (os.MkdirAll(dest), os.RemoveAll in the compensating      *)
(* cleanup, os.Remove("deployments")) is modelled by its effect.           *)
(***************************************************************************)
EXTENDS Naturals, Integers, Sequences, FiniteSets, TLC

(***************************************************************************)
(* Bounds of the model                                                     *)
(***************************************************************************)
MaxIds == 2
MaxEntries == 2
MaxSegs == 2
MaxUrlSegs == 3
MaxChain == 3
MaxTicks == 1

(***************************************************************************)
(* strings                                                                 *)
(***************************************************************************)
SEP == "/"
DOT == "."
DotDot == <<DOT, DOT>>

HasPrefix(s, p) == Len(p) <= Len(s) /\ SubSeq(s, 1, Len(p)) = p

Contains(s, sub) ==
  \E i \in 1..(Len(s) + 1 - Len(sub)) : SubSeq(s, i, i + Len(sub) - 1) = sub

TrimPrefix(s, p) == IF HasPrefix(s, p) THEN SubSeq(s, Len(p) + 1, Len(s)) ELSE s

HasSep(s) == \E i \in 1..Len(s) : s[i] = SEP

FirstSep(s) == CHOOSE i \in 1..Len(s) : s[i] = SEP /\ \A j \in 1..(i - 1) : s[j] # SEP

LastSep(s) == CHOOSE i \in 1..Len(s) : s[i] = SEP /\ \A j \in (i + 1)..Len(s) : s[j] # SEP

\* strings.Split(s, "/")
RECURSIVE SplitSep(_)
SplitSep(s) ==
  IF ~HasSep(s) THEN <<s>>
  ELSE <<SubSeq(s, 1, FirstSep(s) - 1)>> \o SplitSep(SubSeq(s, FirstSep(s) + 1, Len(s)))

\* strings.SplitN(s, "/", 2)
SplitN2(s) ==
  IF ~HasSep(s) THEN <<s>>
  ELSE <<SubSeq(s, 1, FirstSep(s) - 1), SubSeq(s, FirstSep(s) + 1, Len(s))>>

\* strings.Join(elems, "/")
RECURSIVE JoinSep(_)
JoinSep(elems) ==
  IF elems = <<>> THEN <<>>
  ELSE IF Len(elems) = 1 THEN elems[1]
  ELSE elems[1] \o <<SEP>> \o JoinSep(Tail(elems))

(***************************************************************************)
(* path/filepath                                                           *)
(***************************************************************************)
IsAbs(p) == Len(p) > 0 /\ p[1] = SEP

RECURSIVE CleanStack(_, _, _)
CleanStack(comps, stack, rooted) ==
  IF comps = <<>> THEN stack
  ELSE LET c == Head(comps)
           rest == Tail(comps)
       IN IF c = <<>> \/ c = <<DOT>> THEN CleanStack(rest, stack, rooted)
          ELSE IF c = DotDot
               THEN IF stack # <<>> /\ stack[Len(stack)] # DotDot
                    THEN CleanStack(rest, SubSeq(stack, 1, Len(stack) - 1), rooted)
                    ELSE IF rooted THEN CleanStack(rest, stack, rooted)
                         ELSE CleanStack(rest, Append(stack, c), rooted)
               ELSE CleanStack(rest, Append(stack, c), rooted)

\* filepath.Clean, its last step: the root is put back, "" becomes "."
Rooted(body, rooted) ==
  IF rooted THEN <<SEP>> \o body
  ELSE IF body = <<>> THEN <<DOT>> ELSE body

\* filepath.Clean
Clean(p) ==
  IF p = <<>> THEN <<DOT>>
  ELSE Rooted(JoinSep(CleanStack(SplitSep(p), <<>>, IsAbs(p))), IsAbs(p))

\* filepath.Join
RECURSIVE Join(_)
Join(elems) ==
  IF elems = <<>> THEN <<>>
  ELSE IF elems[1] = <<>> THEN Join(Tail(elems))
  ELSE Clean(JoinSep(elems))

\* filepath.Dir
Dir(p) == IF ~HasSep(p) THEN <<DOT>> ELSE Clean(SubSeq(p, 1, LastSep(p)))

LastOr(comps, none) == IF comps = <<>> THEN none ELSE comps[Len(comps)]

\* filepath.Base
Base(p) ==
  IF p = <<>> THEN <<DOT>>
  ELSE LastOr(CleanStack(SplitSep(p), <<>>, TRUE), <<SEP>>)

\* the working directory of the server process
Cwd == <<SEP, "srv">>

\* filepath.Abs
Abs(p) == IF IsAbs(p) THEN Clean(p) ELSE Join(<<Cwd, p>>)


(***************************************************************************)
(* the filesystem: absolute cleaned path |-> DIR or the content of a file  *)
(***************************************************************************)
DIR == "<dir>"

\* the content of a file whose writing did not finish: some proper prefix
\* of the content, the empty one included
PARTIAL == "<partial>"

IsDirAt(f, k) == k \in DOMAIN f /\ f[k] = DIR
IsFileAt(f, k) == k \in DOMAIN f /\ f[k] # DIR

\* q is strictly below the directory k
StrictlyInside(k, q) == HasPrefix(q, k \o <<SEP>>) /\ q # k \o <<SEP>>

\* the absolute path made of the components comps, and its parents
PrefixSet(comps) == {<<SEP>> \o JoinSep(SubSeq(comps, 1, i)) : i \in 1..Len(comps)}

PathPrefixes(k) == PrefixSet(CleanStack(SplitSep(k), <<>>, TRUE))

WithNode(f, k, v) == [q \in DOMAIN f \cup {k} |-> IF q = k THEN v ELSE f[q]]

Without(f, ks) == [q \in DOMAIN f \ ks |-> f[q]]

\* the directories add are made, unless one of them is a file
MkdirKeys(f, add) ==
  IF \E k \in add : IsFileAt(f, k)
  THEN [ok |-> FALSE, fs |-> f]
  ELSE [ok |-> TRUE,
        fs |-> [q \in DOMAIN f \cup add |-> IF q \in DOMAIN f THEN f[q] ELSE DIR]]

\* os.MkdirAll
MkdirAll(f, p) == MkdirKeys(f, PathPrefixes(Abs(p)))

\* os.OpenFile(p, O_WRONLY|O_CREATE|O_TRUNC) and os.Create succeed
CanCreate(f, k) == ~IsDirAt(f, k) /\ IsDirAt(f, Dir(k))

RemoveTree(f, k) == Without(f, {q \in DOMAIN f : q = k \/ StrictlyInside(k, q)})

\* os.RemoveAll: nil when the path does not exist
RemoveAll(f, p) == RemoveTree(f, Abs(p))

RemoveNode(f, k) ==
  IF k \in DOMAIN f /\ ~\E q \in DOMAIN f : StrictlyInside(k, q)
  THEN Without(f, {k})
  ELSE f

\* os.Remove: a file or an empty directory
Remove(f, p) == RemoveNode(f, Abs(p))

StatAt(f, k) ==
  IF k = <<SEP>> \/ IsDirAt(f, k) THEN "dir"
  ELSE IF IsFileAt(f, k) THEN "file"
  ELSE IF \E q \in PathPrefixes(k) : IsFileAt(f, q) THEN "error"
  ELSE "notexist"

\* os.Stat: "file", "dir", "notexist" (os.IsNotExist) or "error" (ENOTDIR)
Stat(f, p) == StatAt(f, Abs(p))

\* byte order of the tokens that occur in file names
TokOrder == <<".", ".zip", "/", "2", "a", "b", "css", "deployments", "srv",
              "temp-", "u1", "u2", "u3", "u4", "u5", "u6", "x">>

Rank(t) == CHOOSE i \in 1..Len(TokOrder) : TokOrder[i] = t

RECURSIVE StrLess(_, _)
StrLess(x, y) ==
  IF y = <<>> THEN FALSE
  ELSE IF x = <<>> THEN TRUE
  ELSE IF x[1] = y[1] THEN StrLess(Tail(x), Tail(y))
  ELSE Rank(x[1]) < Rank(y[1])

RECURSIVE SortStrs(_)
SortStrs(S) ==
  IF S = {} THEN <<>>
  ELSE LET m == CHOOSE x \in S : \A y \in S \ {x} : StrLess(x, y)
       IN <<m>> \o SortStrs(S \ {m})

DirEntries(f, k, names) ==
  [i \in 1..Len(names) |->
     [name |-> names[i], isDir |-> IsDirAt(f, k \o <<SEP>> \o names[i])]]

ReadDirAt(f, k) ==
  IF ~IsDirAt(f, k) THEN [ok |-> FALSE, entries |-> <<>>]
  ELSE [ok |-> TRUE,
        entries |-> DirEntries(f, k,
          SortStrs({Base(q) : q \in {x \in DOMAIN f : StrictlyInside(k, x) /\ Dir(x) = k}}))]

\* os.ReadDir: the entries of a directory sorted by file name
ReadDir(f, p) == ReadDirAt(f, Abs(p))

(***************************************************************************)
(* archives: a zip file is its list of entries, or is not a zip file       *)
(***************************************************************************)
File(name, data) == [name |-> name, isDir |-> FALSE, data |-> data]
Folder(name) == [name |-> name, isDir |-> TRUE, data |-> ""]
Zip(entries) == [valid |-> TRUE, entries |-> entries]
NotAZip == [valid |-> FALSE, entries |-> <<>>]

\* zip.FileHeader.FileInfo().IsDir(): the mode bits, or a name ending in "/"
EntryIsDir(e) == e.isDir \/ (Len(e.name) > 0 /\ e.name[Len(e.name)] = SEP)

\* the archives uploaded in the lifecycle specification
Archives ==
  << Zip(<<File(<<"a">>, "A1")>>),
     Zip(<<File(<<DOT, DOT, SEP, "x">>, "EVIL"), File(<<"a", DOT, DOT, "b">>, "AB")>>),
     Zip(<<Folder(<<"css", SEP>>), File(<<"css", SEP, "b">>, "B3")>>),
     Zip(<<>>),
     NotAZip,
     Zip(<<File(<<"a">>, "A1"), File(<<"a", SEP, "b">>, "B2")>>) >>

(***************************************************************************)
(* unzip (src/handlers/upload.go)                                          *)
(***************************************************************************)
DeploymentsDir == <<"deployments">>

EntrySkippedNever(dest, name) == FALSE

\* lines 91 and 98: the entry is skipped
EntrySkipped(dest, name) ==
  \/ Contains(name, DotDot)
  \/ ~HasPrefix(Join(<<dest, name>>), Clean(dest) \o <<SEP>>)

UnzipFaults == {"none", "mkdir", "create", "open", "copy"}

\* lines 107-130: the parent directories m are made, the file k is written
WriteEntry(f, m, k, data, fault) ==
  IF fault = "mkdir" \/ ~m.ok THEN [ok |-> FALSE, fs |-> f]
  ELSE IF fault = "create" \/ ~CanCreate(m.fs, k) THEN [ok |-> FALSE, fs |-> m.fs]
  ELSE IF fault \in {"open", "copy"} THEN [ok |-> FALSE, fs |-> WithNode(m.fs, k, PARTIAL)]
  ELSE [ok |-> TRUE, fs |-> WithNode(m.fs, k, data)]

\* lines 102-130: the entry e goes to the absolute path k
ExtractEntry(f, e, k, fault) ==
  IF EntryIsDir(e) THEN [ok |-> TRUE, fs |-> MkdirKeys(f, PathPrefixes(k)).fs]
  ELSE WriteEntry(f, MkdirKeys(f, PathPrefixes(Dir(k))), k, e.data, fault)

\* one iteration of the loop of unzip over r.File
UnzipEntry(f, dest, e, fault) ==
  IF EntrySkipped(dest, e.name) THEN [ok |-> TRUE, fs |-> f]
  ELSE ExtractEntry(f, e, Abs(Join(<<dest, e.name>>)), fault)

(***************************************************************************)
(* state                                                                   *)
(***************************************************************************)
VARIABLES
  db,      \* the deployments table: its rows in insertion order
  fs,      \* the filesystem
  reqs,    \* the requests being served, and the last response of each slot
  nextId,  \* the number of uuids generated so far, plus one
  now,     \* the wall clock: what time.Now() returns
  env      \* the clients and the environment: which requests are sent, how
           \* many at a time, whether calls of the system fail, how many
           \* uuids are generated at most (cap) and how far the clock
           \* goes (ticks)

vars == <<db, fs, reqs, nextId, env, now>>

\* the clients: each sends one request after the other
Slots == {1, 2}

\* the verbs a client sends to a route whose handler requires verb
Methods(verb) == IF env.bad THEN {"GET", "POST", "DELETE"} ELSE {verb}

\* the outcomes of a call that can fail: faults, the first of them "none"
Outcomes(faults) == IF env.faults THEN faults ELSE {"none"}
Fails == IF env.faults THEN BOOLEAN ELSE {FALSE}

Uuids == <<"u1", "u2", "u3", "u4", "u5", "u6">>

NewUuidFixed == <<Uuids[1]>>

\* uuid.New().String(): an id never generated before
NewUuid == <<Uuids[nextId]>>

NoRec == [id |-> <<>>, filename |-> <<>>, timestamp |-> 0, path |-> <<>>]

\* models.NewDeployment: the timestamp is time.Now()
NewDeployment(id, filename, path) ==
  [id |-> id, filename |-> filename, timestamp |-> now, path |-> path]

Idle ==
  [kind |-> "idle", method |-> "", pc |-> "idle", id |-> <<>>, arg |-> <<>>,
   fname |-> <<>>,
   arch |-> NotAZip, idx |-> 0, src |-> NoRec, todo |-> <<>>, snap |-> <<>>,
   failed |-> <<>>, logged |-> <<>>, count |-> 0, status |-> 0, msg |-> "", body |-> <<>>]

Free(s) == s \in env.slots /\ reqs[s].pc \in {"idle", "done"}

\* the response is written and the handler returns; body is the JSON object
\* of the response, with the keys of the source as fields, <<>> for the
\* plain text of http.Error
Respond(r, status, msg, body) ==
  [Idle EXCEPT !.kind = r.kind, !.method = r.method, !.pc = "done",
               !.id = r.id, !.arg = r.arg,
               !.arch = r.arch, !.src = r.src, !.failed = r.failed,
               !.logged = r.logged,
               !.status = status, !.msg = msg, !.body = body]

\* the uuids that requests already accepted are still going to generate
PendingIds == Cardinality({s \in Slots : reqs[s].kind = "rollback" /\ reqs[s].pc = "stat"})

\* the rows of the table
Rows == {db[i] : i \in 1..Len(db)}
HasRow(id) == \E row \in Rows : row.id = id
RowOf(id) == CHOOSE row \in Rows : row.id = id

\* DELETE FROM deployments WHERE id = ?
RECURSIVE DeleteRow(_, _)
DeleteAllRowsButOne(rows) == IF rows = <<>> THEN <<>> ELSE <<rows[1]>>

\* DELETE FROM deployments
DeleteAllRows(rows) == <<>>

DeleteRowSkipped(rows, id) == rows

DeleteRow(rows, id) ==
  IF rows = <<>> THEN <<>>
  ELSE IF Head(rows).id = id THEN DeleteRow(Tail(rows), id)
  ELSE <<Head(rows)>> \o DeleteRow(Tail(rows), id)

\* main: the directories and the database file exist before the routes do
InitFs ==
  LET d1 == MkdirAll([k \in {<<SEP>>} |-> DIR], DeploymentsDir).fs
      d2 == MkdirAll(d1, <<"db">>).fs
  IN WithNode(d2, Abs(<<"db", SEP, "database.db">>), "sqlite")


(***************************************************************************)
(* UploadHandler (src/handlers/upload.go)                                  *)
(***************************************************************************)
TempZip(id) == <<"temp-">> \o id \o <<".zip">>
DestDir(id) == Join(<<DeploymentsDir, id>>)

NoForm == [present |-> FALSE, filename |-> <<>>, arch |-> NotAZip]
Form(filename, arch) == [present |-> TRUE, filename |-> filename, arch |-> arch]

\* the multipart forms posted to /upload
UploadForms ==
  {NoForm, Form(<<>>, Archives[1])}
    \cup {Form(<<"site.zip">>, Archives[i]) : i \in 1..Len(Archives)}

FormFileUnnamed(form) == form.present

\* r.FormFile("file"), lines 25-30: multipart parsing takes a part whose
\* filename is empty for a plain value, so the form has no file "file"
FormFile(form) == form.present /\ form.filename # <<>>

\* lines 19-53: method, form, uuid, temporary copy of the upload
UploadBegin(s) ==
  /\ Free(s)
  /\ \E method \in Methods("POST") :
       IF method # "POST"
       THEN /\ reqs' = [reqs EXCEPT ![s] =
                 Respond([Idle EXCEPT !.kind = "upload", !.method = method],
                         405, "POST required", <<>>)]
            /\ UNCHANGED <<db, fs, nextId, env, now>>
       ELSE \E form \in env.forms :
              IF ~FormFile(form)
              THEN /\ reqs' = [reqs EXCEPT ![s] =
                        Respond([Idle EXCEPT !.kind = "upload", !.method = method,
                                             !.arg = form.filename,
                                             !.arch = form.arch],
                                400, "Invalid file", <<>>)]
                   /\ UNCHANGED <<db, fs, nextId, env, now>>
              ELSE /\ nextId + PendingIds <= env.cap
                   /\ \E fault \in Outcomes({"none", "create", "copy"}) :
                        LET r == [Idle EXCEPT
                                    !.kind = "upload", !.method = method,
                                    !.id = NewUuid, !.arch = form.arch,
                                    !.arg = form.filename,
                                    !.fname = IF form.filename = <<>>
                                              THEN <<"unknown.zip">> ELSE form.filename]
                        IN /\ nextId' = nextId + 1
                           /\ UNCHANGED <<db, env, now>>
                           /\ IF fault = "create"
                              THEN /\ reqs' = [reqs EXCEPT ![s] =
                                        Respond(r, 500, "Could not create temp file", <<>>)]
                                   /\ UNCHANGED fs
                              ELSE IF fault = "copy"
                              THEN /\ reqs' = [reqs EXCEPT ![s] =
                                        Respond(r, 500, "Failed to save uploaded file", <<>>)]
                                   /\ UNCHANGED fs
                              ELSE /\ reqs' = [reqs EXCEPT ![s] = [r EXCEPT !.pc = "unzip"]]
                                   /\ fs' = WithNode(fs, Abs(TempZip(r.id)), "zip")

\* unzip, lines 81-87: open the archive, create the destination
UploadUnzipOpen(s) ==
  LET r == reqs[s] IN
  /\ r.kind = "upload" /\ r.pc = "unzip"
  /\ UNCHANGED <<db, nextId, env, now>>
  /\ IF ~r.arch.valid
     THEN /\ reqs' = [reqs EXCEPT ![s] = Respond(r, 500, "Failed to unzip", <<>>)]
          /\ fs' = Remove(fs, TempZip(r.id))
     ELSE /\ fs' = MkdirAll(fs, DestDir(r.id)).fs
          /\ reqs' = [reqs EXCEPT ![s] =
               IF r.arch.entries = <<>> THEN [r EXCEPT !.pc = "insert"]
               ELSE [r EXCEPT !.pc = "entry", !.idx = 1]]

UnzipReturnsEarly(s, r, res) ==
  IF ~res.ok
  THEN /\ reqs' = [reqs EXCEPT ![s] = Respond(r, 500, "Failed to unzip", <<>>)]
       /\ fs' = Remove(res.fs, TempZip(r.id))
  ELSE /\ fs' = res.fs
       /\ reqs' = [reqs EXCEPT ![s] = [r EXCEPT !.pc = "insert"]]

UnzipReturnsGoesOn(s, r, res) ==
  /\ fs' = IF ~res.ok /\ r.idx = Len(r.arch.entries)
           THEN Remove(res.fs, TempZip(r.id)) ELSE res.fs
  /\ reqs' = [reqs EXCEPT ![s] =
       IF r.idx < Len(r.arch.entries) THEN [r EXCEPT !.idx = r.idx + 1]
       ELSE IF res.ok THEN [r EXCEPT !.pc = "insert"]
       ELSE Respond(r, 500, "Failed to unzip", <<>>)]

\* the loop of unzip goes on to the next entry, or unzip returns
UnzipReturns(s, r, res) ==
  IF ~res.ok
  THEN /\ reqs' = [reqs EXCEPT ![s] = Respond(r, 500, "Failed to unzip", <<>>)]
       /\ fs' = Remove(res.fs, TempZip(r.id))
  ELSE /\ fs' = res.fs
       /\ reqs' = [reqs EXCEPT ![s] =
            IF r.idx = Len(r.arch.entries) THEN [r EXCEPT !.pc = "insert"]
            ELSE [r EXCEPT !.idx = r.idx + 1]]

\* unzip, lines 89-130: one entry of the archive
UploadUnzipEntry(s) ==
  /\ reqs[s].kind = "upload" /\ reqs[s].pc = "entry"
  /\ UNCHANGED <<db, nextId, env, now>>
  /\ \E fault \in Outcomes(UnzipFaults) :
       UnzipReturns(s, reqs[s],
         UnzipEntry(fs, DestDir(reqs[s].id), reqs[s].arch.entries[reqs[s].idx], fault))

CleanupFilesSkipped(f, path) == f

\* the compensating action of lines 66-71 and 204-209
CleanupFiles(f, path) == RemoveAll(f, path)

\* the clock when time.Now() is called again in the same handler
Later == {t \in now..env.ticks : t <= now + 1} \cup {now}

\* lines 61-77: the row is inserted, or the files are cleaned up; the
\* deployment of the response is made by a second call of NewDeployment,
\* line 73, so its timestamp is that of a later time.Now()
UploadInsert(s) ==
  LET r == reqs[s]
      destDir == DestDir(r.id)
  IN
  /\ r.kind = "upload" /\ r.pc = "insert"
  /\ UNCHANGED <<nextId, env>>
  /\ \E fail \in Fails :
       IF fail \/ HasRow(r.id)
       THEN /\ fs' = Remove(CleanupFiles(fs, destDir), TempZip(r.id))
            /\ reqs' = [reqs EXCEPT ![s] =
                 Respond(r, 500, "Failed to save deployment", <<>>)]
            /\ UNCHANGED <<db, now>>
       ELSE /\ db' = Append(db, NewDeployment(r.id, r.fname, destDir))
            /\ fs' = Remove(fs, TempZip(r.id))
            /\ \E t \in Later :
                 /\ now' = t
                 /\ reqs' = [reqs EXCEPT ![s] =
                      Respond(r, 200, "",
                        [NewDeployment(r.id, r.fname, destDir) EXCEPT !.timestamp = t])]

UploadHandler(s) ==
  \/ UploadBegin(s)
  \/ UploadUnzipOpen(s)
  \/ UploadUnzipEntry(s)
  \/ UploadInsert(s)


(***************************************************************************)
(* RollbackHandler, copyDir, copyFile (src/handlers/upload.go, 151-278)    *)
(***************************************************************************)
\* the ids carried by the paths /deployments/{id} and /rollback/{id}
IdArgs == {<<>>} \cup {<<Uuids[i]>> : i \in 1..MaxIds}

RollbackBeginBlind(s) ==
  /\ Free(s)
  /\ UNCHANGED <<db, fs, nextId, env, now>>
  /\ nextId + PendingIds <= env.cap
  /\ \E arg \in env.ids \ {<<>>} :
       reqs' = [reqs EXCEPT ![s] =
         [Idle EXCEPT !.kind = "rollback", !.method = "POST", !.arg = arg, !.pc = "stat",
                      !.src = IF HasRow(arg) THEN RowOf(arg)
                              ELSE NewDeployment(arg, <<>>, DestDir(arg))]]

\* lines 152-178: method, id, lookup of the source row
RollbackBegin(s) ==
  /\ Free(s)
  /\ UNCHANGED <<db, fs, nextId, env, now>>
  /\ \E method \in Methods("POST") :
       LET r0 == [Idle EXCEPT !.kind = "rollback", !.method = method] IN
       IF method # "POST"
       THEN reqs' = [reqs EXCEPT ![s] = Respond(r0, 405, "POST required", <<>>)]
       ELSE \E arg \in env.ids, fail \in Fails :
              LET r == [r0 EXCEPT !.arg = arg] IN
              IF arg = <<>>
              THEN reqs' = [reqs EXCEPT ![s] = Respond(r, 400, "Deployment ID required", <<>>)]
              ELSE IF fail
              THEN reqs' = [reqs EXCEPT ![s] =
                     Respond(r, 500, "Failed to fetch source deployment", <<>>)]
              ELSE IF ~HasRow(arg)
              THEN reqs' = [reqs EXCEPT ![s] =
                     Respond(r, 404, "Source deployment not found", <<>>)]
              ELSE /\ nextId + PendingIds <= env.cap
                   /\ reqs' = [reqs EXCEPT ![s] = [r EXCEPT !.pc = "stat", !.src = RowOf(arg)]]

RollbackStatBlind(s) ==
  /\ reqs[s].kind = "rollback" /\ reqs[s].pc = "stat"
  /\ UNCHANGED <<db, fs, env, now>>
  /\ nextId' = nextId + 1
  /\ reqs' = [reqs EXCEPT ![s] =
       [reqs[s] EXCEPT !.pc = "copy", !.id = NewUuid,
                       !.todo = <<[rel |-> <<>>, isDir |-> TRUE]>>]]

\* lines 180-188: the source directory is looked at, the new uuid generated
RollbackStat(s) ==
  LET r == reqs[s] IN
  /\ r.kind = "rollback" /\ r.pc = "stat"
  /\ UNCHANGED <<db, fs, env, now>>
  /\ IF Stat(fs, r.src.path) = "notexist"
     THEN /\ reqs' = [reqs EXCEPT ![s] =
               Respond(r, 404, "Source deployment files no longer exist", <<>>)]
          /\ UNCHANGED nextId
     ELSE /\ nextId' = nextId + 1
          /\ reqs' = [reqs EXCEPT ![s] =
               [r EXCEPT !.pc = "copy", !.id = NewUuid,
                         !.todo = <<[rel |-> <<>>, isDir |-> TRUE]>>]]

CopyFaults == {"none", "mkdir", "readdir", "open", "create", "copy", "chmod"}

\* copyDir, lines 221-231: the directory is created, m, the source is read, d
CopyDirRead(f, m, d, fault) ==
  IF fault = "mkdir" \/ ~m.ok THEN [ok |-> FALSE, fs |-> f, entries |-> <<>>]
  ELSE IF fault = "readdir" \/ ~d.ok THEN [ok |-> FALSE, fs |-> m.fs, entries |-> <<>>]
  ELSE [ok |-> TRUE, fs |-> m.fs, entries |-> d.entries]

CopyDir(f, src, dst, fault) ==
  CopyDirRead(f, MkdirKeys(f, PathPrefixes(dst)), ReadDirAt(f, src), fault)

CopyFileTruncated(f, src, dst, fault) ==
  [ok |-> TRUE, fs |-> WithNode(f, dst, PARTIAL), entries |-> <<>>]

\* copyFile, lines 254-278
CopyFile(f, src, dst, fault) ==
  IF fault = "open" \/ ~IsFileAt(f, src) THEN [ok |-> FALSE, fs |-> f, entries |-> <<>>]
  ELSE IF fault = "create" \/ ~CanCreate(f, dst) THEN [ok |-> FALSE, fs |-> f, entries |-> <<>>]
  ELSE IF fault = "copy"
       THEN [ok |-> FALSE, fs |-> WithNode(f, dst, PARTIAL), entries |-> <<>>]
  ELSE [ok |-> fault # "chmod", fs |-> WithNode(f, dst, f[src]), entries |-> <<>>]

\* the entries of a directory that was read are walked before what was left
Walk(rel, entries, rest) ==
  [i \in 1..Len(entries) |->
     [rel |-> Join(<<rel, entries[i].name>>), isDir |-> entries[i].isDir]] \o rest

\* copyDir goes on with the walk todo, or returns
CopyReturns(s, r, res, todo) ==
  /\ fs' = res.fs
  /\ reqs' = [reqs EXCEPT ![s] =
       IF ~res.ok THEN Respond(r, 500, "Failed to copy deployment files", <<>>)
       ELSE IF todo = <<>> THEN [r EXCEPT !.pc = "insert", !.todo = <<>>]
       ELSE [r EXCEPT !.todo = todo]]

CopyStep(s, r, item, res) ==
  CopyReturns(s, r, res, Walk(item.rel, res.entries, Tail(r.todo)))

CopyItem(f, item, src, dst, fault) ==
  IF item.isDir THEN CopyDir(f, src, dst, fault) ELSE CopyFile(f, src, dst, fault)

\* lines 190-194: one directory or one file of the walk of copyDir, which
\* goes depth first through the entries each os.ReadDir returned
RollbackCopy(s) ==
  /\ reqs[s].kind = "rollback" /\ reqs[s].pc = "copy"
  /\ UNCHANGED <<db, nextId, env, now>>
  /\ \E fault \in Outcomes(CopyFaults) :
       CopyStep(s, reqs[s], Head(reqs[s].todo),
         CopyItem(fs, Head(reqs[s].todo),
                  Abs(Join(<<reqs[s].src.path, Head(reqs[s].todo).rel>>)),
                  Abs(Join(<<DestDir(reqs[s].id), Head(reqs[s].todo).rel>>)),
                  fault))

RollbackFilenameOnce(filename) ==
  IF HasPrefix(filename, <<"[ROLLBACK] ">>) THEN filename
  ELSE <<"[ROLLBACK] ">> \o filename

\* line 197: fmt.Sprintf("[ROLLBACK] %s", sourceDeployment.Filename)
RollbackFilename(filename) == <<"[ROLLBACK] ">> \o filename

\* lines 196-217: the row is inserted, or the copy is cleaned up
RollbackInsert(s) ==
  LET r == reqs[s]
      newDeployment == NewDeployment(r.id, RollbackFilename(r.src.filename), DestDir(r.id))
  IN
  /\ r.kind = "rollback" /\ r.pc = "insert"
  /\ UNCHANGED <<nextId, env, now>>
  /\ \E fail \in Fails :
       IF fail \/ HasRow(r.id)
       THEN /\ fs' = CleanupFiles(fs, newDeployment.path)
            /\ reqs' = [reqs EXCEPT ![s] =
                 Respond(r, 500, "Failed to save rollback deployment", <<>>)]
            /\ UNCHANGED db
       ELSE /\ db' = Append(db, newDeployment)
            /\ reqs' = [reqs EXCEPT ![s] =
                 Respond(r, 200, "Rollback successful",
                   [source_deployment |-> r.src, new_deployment |-> newDeployment])]
            /\ UNCHANGED fs

RollbackHandler(s) ==
  \/ RollbackBegin(s)
  \/ RollbackStat(s)
  \/ RollbackCopy(s)
  \/ RollbackInsert(s)

(***************************************************************************)
(* DeleteDeploymentHandler (src/handlers/delete.go)                        *)
(***************************************************************************)
DeleteBeginBlind(s) ==
  /\ Free(s)
  /\ UNCHANGED <<db, nextId, env, now>>
  /\ \E arg \in env.ids \ {<<>>} :
       /\ fs' = RemoveAll(fs, DestDir(arg))
       /\ reqs' = [reqs EXCEPT ![s] =
            IF HasRow(arg)
            THEN [Idle EXCEPT !.kind = "delete", !.method = "DELETE", !.arg = arg,
                              !.pc = "exec", !.src = RowOf(arg)]
            ELSE Respond([Idle EXCEPT !.kind = "delete", !.method = "DELETE", !.arg = arg],
                         404, "Deployment not found", <<>>)]

DeleteBeginAnyId(s) ==
  /\ Free(s)
  /\ UNCHANGED <<db, fs, nextId, env, now>>
  /\ \E arg \in env.ids :
       LET r == [Idle EXCEPT !.kind = "delete", !.method = "DELETE", !.arg = arg] IN
       IF ~HasRow(arg)
       THEN reqs' = [reqs EXCEPT ![s] = Respond(r, 404, "Deployment not found", <<>>)]
       ELSE reqs' = [reqs EXCEPT ![s] = [r EXCEPT !.pc = "exec", !.src = RowOf(arg)]]

\* lines 15-41: method, id, lookup of the row
DeleteBegin(s) ==
  /\ Free(s)
  /\ UNCHANGED <<db, fs, nextId, env, now>>
  /\ \E method \in Methods("DELETE") :
       LET r0 == [Idle EXCEPT !.kind = "delete", !.method = method] IN
       IF method # "DELETE"
       THEN reqs' = [reqs EXCEPT ![s] = Respond(r0, 405, "DELETE required", <<>>)]
       ELSE \E arg \in env.ids, fail \in Fails :
              LET r == [r0 EXCEPT !.arg = arg] IN
              IF arg = <<>>
              THEN reqs' = [reqs EXCEPT ![s] = Respond(r, 400, "Deployment ID required", <<>>)]
              ELSE IF fail
              THEN reqs' = [reqs EXCEPT ![s] = Respond(r, 500, "Failed to fetch deployment", <<>>)]
              ELSE IF ~HasRow(arg)
              THEN reqs' = [reqs EXCEPT ![s] = Respond(r, 404, "Deployment not found", <<>>)]
              ELSE reqs' = [reqs EXCEPT ![s] = [r EXCEPT !.pc = "exec", !.src = RowOf(arg)]]

\* lines 43-48: the row is deleted
DeleteExec(s) ==
  LET r == reqs[s] IN
  /\ r.kind = "delete" /\ r.pc = "exec"
  /\ UNCHANGED <<fs, nextId, env, now>>
  /\ \E fail \in Fails :
       IF fail
       THEN /\ reqs' = [reqs EXCEPT ![s] =
                 Respond(r, 500, "Failed to delete from database", <<>>)]
            /\ UNCHANGED db
       ELSE /\ db' = DeleteRow(db, r.arg)
            /\ reqs' = [reqs EXCEPT ![s] = [r EXCEPT !.pc = "rm"]]

DeleteRemoveRetries(s) ==
  LET r == reqs[s] IN
  /\ r.kind = "delete" /\ r.pc = "rm"
  /\ UNCHANGED <<db, nextId, env, now>>
  /\ \E fail \in Fails :
       /\ fs' = IF fail THEN fs ELSE RemoveAll(fs, r.src.path)
       /\ reqs' = [reqs EXCEPT ![s] =
            IF fail
            THEN [r EXCEPT !.logged = IF r.logged = <<>> THEN <<r.src.path>> ELSE <<>>]
            ELSE Respond(r, 200, "deleted successfully", <<>>)]

\* lines 50-59: the files are removed; a failure is printed, not returned
DeleteRemove(s) ==
  LET r == reqs[s] IN
  /\ r.kind = "delete" /\ r.pc = "rm"
  /\ UNCHANGED <<db, nextId, env, now>>
  /\ \E fail \in Fails :
       /\ fs' = IF fail THEN fs ELSE RemoveAll(fs, r.src.path)
       /\ reqs' = [reqs EXCEPT ![s] =
            Respond([r EXCEPT !.logged = IF fail THEN <<r.src.path>> ELSE <<>>],
                    200, "deleted successfully", <<>>)]

DeleteDeploymentHandler(s) ==
  \/ DeleteBegin(s)
  \/ DeleteExec(s)
  \/ DeleteRemove(s)


(***************************************************************************)
(* DeleteAllDeploymentsHandler (src/unnamed/part_001, 13-93)               *)
(***************************************************************************)
PathsOfFirst(rows) == <<Head(rows).path>>

RECURSIVE PathsOf(_)
PathsOf(rows) == IF rows = <<>> THEN <<>> ELSE <<Head(rows).path>> \o PathsOf(Tail(rows))

DeleteAllBeginSweeps(s) ==
  /\ Free(s)
  /\ UNCHANGED <<db, nextId, env, now>>
  /\ fs' = IF db = <<>> THEN Remove(fs, DeploymentsDir) ELSE fs
  /\ reqs' = [reqs EXCEPT ![s] =
       IF db = <<>>
       THEN Respond([Idle EXCEPT !.kind = "deleteall", !.method = "DELETE"],
                    200, "No deployments to delete",
                             [deleted_count |-> 0, failed_deletions |-> <<>>])
       ELSE [Idle EXCEPT !.kind = "deleteall", !.method = "DELETE", !.pc = "exec", !.snap = db,
                         !.todo = PathsOf(db)]]

\* lines 14-50: method, snapshot of the rows and of their paths
DeleteAllBegin(s) ==
  /\ Free(s)
  /\ UNCHANGED <<db, fs, nextId, env, now>>
  /\ \E method \in Methods("DELETE") :
       LET r == [Idle EXCEPT !.kind = "deleteall", !.method = method] IN
       IF method # "DELETE"
       THEN reqs' = [reqs EXCEPT ![s] = Respond(r, 405, "DELETE required", <<>>)]
       ELSE \E fault \in Outcomes({"none", "query", "scan"}) :
              IF fault = "query"
              THEN reqs' = [reqs EXCEPT ![s] =
                     Respond(r, 500, "Failed to fetch deployments", <<>>)]
              ELSE IF fault = "scan" /\ db # <<>>
              THEN reqs' = [reqs EXCEPT ![s] =
                     Respond(r, 500, "Failed to scan deployment", <<>>)]
              ELSE IF db = <<>>
              THEN reqs' = [reqs EXCEPT ![s] =
                     Respond(r, 200, "No deployments to delete",
                             [deleted_count |-> 0, failed_deletions |-> <<>>])]
              ELSE reqs' = [reqs EXCEPT ![s] =
                     [r EXCEPT !.pc = "exec", !.snap = db, !.todo = PathsOf(db)]]

\* lines 52-63: every row is deleted, the number of deleted rows is read
DeleteAllExec(s) ==
  LET r == reqs[s] IN
  /\ r.kind = "deleteall" /\ r.pc = "exec"
  /\ UNCHANGED <<fs, nextId, env, now>>
  /\ \E fault \in Outcomes({"none", "exec", "rows"}) :
       IF fault = "exec"
       THEN /\ reqs' = [reqs EXCEPT ![s] =
                 Respond(r, 500, "Failed to delete deployments from database", <<>>)]
            /\ UNCHANGED db
       ELSE /\ db' = DeleteAllRows(db)
            /\ reqs' = [reqs EXCEPT ![s] =
                 IF fault = "rows"
                 THEN Respond(r, 500, "Failed to get deletion count", <<>>)
                 ELSE [r EXCEPT !.pc = "rm", !.count = Len(db)]]

\* lines 65-74: one directory of the snapshot is removed
DeleteAllRemove(s) ==
  LET r == reqs[s] IN
  /\ r.kind = "deleteall" /\ r.pc = "rm" /\ r.todo # <<>>
  /\ UNCHANGED <<db, nextId, env, now>>
  /\ \E fail \in Fails :
       /\ fs' = IF fail THEN fs ELSE RemoveAll(fs, Head(r.todo))
       /\ reqs' = [reqs EXCEPT ![s] =
            [r EXCEPT !.todo = Tail(r.todo),
                      !.failed = IF fail THEN Append(r.failed, Head(r.todo)) ELSE r.failed]]

\* lines 76-92: the root is removed when it is empty, the summary is sent
DeleteAllFinish(s) ==
  LET r == reqs[s] IN
  /\ r.kind = "deleteall" /\ r.pc = "rm" /\ r.todo = <<>>
  /\ UNCHANGED <<db, nextId, env, now>>
  /\ fs' = Remove(fs, DeploymentsDir)
  /\ reqs' = [reqs EXCEPT ![s] =
       Respond(r, 200, "Bulk deletion completed",
               [deleted_count |-> r.count, deleted_deployments |-> r.snap,
                failed_deletions |-> r.failed, warning |-> r.failed # <<>>])]

DeleteAllDeploymentsHandler(s) ==
  \/ DeleteAllBegin(s)
  \/ DeleteAllExec(s)
  \/ DeleteAllRemove(s)
  \/ DeleteAllFinish(s)

(***************************************************************************)
(* ResetSystemHandler (src/unnamed/part_001, 96-136)                       *)
(***************************************************************************)
ResetBeginAnyVerb(s) ==
  /\ Free(s)
  /\ UNCHANGED <<db, fs, nextId, env, now>>
  /\ \E method \in Methods("POST") :
       reqs' = [reqs EXCEPT ![s] =
         [Idle EXCEPT !.kind = "reset", !.method = method, !.pc = "exec",
                      !.count = Len(db)]]

\* lines 97-108: method, count of the rows
ResetBegin(s) ==
  /\ Free(s)
  /\ UNCHANGED <<db, fs, nextId, env, now>>
  /\ \E method \in Methods("POST"), fail \in Fails :
       LET r == [Idle EXCEPT !.kind = "reset", !.method = method] IN
       IF method # "POST"
       THEN reqs' = [reqs EXCEPT ![s] = Respond(r, 405, "POST required", <<>>)]
       ELSE IF fail
       THEN reqs' = [reqs EXCEPT ![s] = Respond(r, 500, "Failed to count deployments", <<>>)]
       ELSE reqs' = [reqs EXCEPT ![s] = [r EXCEPT !.pc = "exec", !.count = Len(db)]]

\* lines 110-115: every row is deleted
ResetExec(s) ==
  LET r == reqs[s] IN
  /\ r.kind = "reset" /\ r.pc = "exec"
  /\ UNCHANGED <<fs, nextId, env, now>>
  /\ \E fail \in Fails :
       IF fail
       THEN /\ reqs' = [reqs EXCEPT ![s] = Respond(r, 500, "Failed to clear database", <<>>)]
            /\ UNCHANGED db
       ELSE /\ db' = DeleteAllRows(db)
            /\ reqs' = [reqs EXCEPT ![s] = [r EXCEPT !.pc = "rm"]]

\* lines 117-121: the deployments root is removed; a failure is printed
ResetRemove(s) ==
  LET r == reqs[s] IN
  /\ r.kind = "reset" /\ r.pc = "rm"
  /\ UNCHANGED <<db, nextId, env, now>>
  /\ \E fail \in Fails :
       /\ fs' = IF fail THEN fs ELSE RemoveAll(fs, DeploymentsDir)
       /\ reqs' = [reqs EXCEPT ![s] =
            [r EXCEPT !.pc = "mkdir",
                      !.logged = IF fail THEN <<DeploymentsDir>> ELSE <<>>]]

\* lines 123-135: the empty root is created again
ResetMkdir(s) ==
  LET r == reqs[s] IN
  /\ r.kind = "reset" /\ r.pc = "mkdir"
  /\ UNCHANGED <<db, nextId, env, now>>
  /\ \E fail \in Fails :
       IF fail \/ ~MkdirAll(fs, DeploymentsDir).ok
       THEN /\ reqs' = [reqs EXCEPT ![s] =
                 Respond(r, 500, "Failed to recreate deployments directory", <<>>)]
            /\ UNCHANGED fs
       ELSE /\ fs' = MkdirAll(fs, DeploymentsDir).fs
            /\ reqs' = [reqs EXCEPT ![s] =
                 Respond(r, 200, "System reset completed",
                         [deleted_count |-> r.count,
                          status |-> "All deployments and files removed"])]

ResetSystemHandler(s) ==
  \/ ResetBegin(s)
  \/ ResetExec(s)
  \/ ResetRemove(s)
  \/ ResetMkdir(s)

(***************************************************************************)
(* ListDeploymentsHandler (src/handlers/list.go)                           *)
(***************************************************************************)
\* SELECT ... FROM deployments ORDER BY timestamp DESC, line 18: the rows by
\* timestamp, the newest first; the statement has no second sort key, so
\* rows of equal timestamp come in an order that SQL leaves open
OrderByTimestampDesc(rows) ==
  LET n == Len(rows)
      Orders == {p \in [1..n -> 1..n] : \A i, j \in 1..n : p[i] = p[j] => i = j}
      NewestFirst(p) ==
        \A i, j \in 1..n : i < j => rows[p[i]].timestamp >= rows[p[j]].timestamp
  IN {[i \in 1..n |-> rows[p[i]]] : p \in {q \in Orders : NewestFirst(q)}}

\* json.NewEncoder(w).Encode(deployments), line 37: the slice that was never
\* appended to is nil and is encoded as null
EncodeList(deployments) ==
  IF deployments = <<>> THEN [null |-> TRUE] ELSE [deployments |-> deployments]

\* lines 12-41
ListDeploymentsHandler(s) ==
  /\ Free(s)
  /\ UNCHANGED <<db, fs, nextId, env, now>>
  /\ \E method \in Methods("GET") :
       LET r == [Idle EXCEPT !.kind = "list", !.method = method] IN
       IF method # "GET"
       THEN reqs' = [reqs EXCEPT ![s] = Respond(r, 405, "GET required", <<>>)]
       ELSE \E fault \in Outcomes({"none", "query", "scan", "encode"}) :
              IF fault = "query"
              THEN reqs' = [reqs EXCEPT ![s] =
                     Respond(r, 500, "Failed to fetch deployments", <<>>)]
              ELSE IF fault = "scan" /\ db # <<>>
              THEN reqs' = [reqs EXCEPT ![s] =
                     Respond(r, 500, "Failed to scan deployment", <<>>)]
              ELSE IF fault = "encode"
              THEN reqs' = [reqs EXCEPT ![s] =
                     Respond(r, 500, "Failed to encode response", <<>>)]
              ELSE \E deployments \in OrderByTimestampDesc(db) :
                     reqs' = [reqs EXCEPT ![s] =
                       Respond(r, 200, "", EncodeList(deployments))]

\* setupRoutes, src/cmd/main.go 115-124: the route /deployments hands GET
\* to the list handler and DELETE to the delete-all handler, and refuses
\* every other verb itself
DeploymentsRoute(s) ==
  /\ Free(s)
  /\ UNCHANGED <<db, fs, nextId, env, now>>
  /\ \E method \in Methods("GET") \ {"GET", "DELETE"} :
       reqs' = [reqs EXCEPT ![s] =
         Respond([Idle EXCEPT !.kind = "deployments", !.method = method],
                 405, "Method not allowed", <<>>)]

\* the clock of the machine goes on
Tick ==
  /\ now < env.ticks
  /\ now' = now + 1
  /\ UNCHANGED <<db, fs, reqs, nextId, env>>

(***************************************************************************)
(* StaticFileHandler (src/handlers/static.go)                              *)
(***************************************************************************)
NotFound == [status |-> 404, body |-> ""]

\* line 33: the security check
InsideDeployments(fullPath) == HasPrefix(Abs(fullPath), Abs(DeploymentsDir))

ServeFileOrDir(f, k, info) ==
  IF info = "notexist" THEN NotFound
  ELSE IF info = "error" THEN [status |-> 500, body |-> ""]
  ELSE [status |-> 200, body |-> IF k \in DOMAIN f THEN f[k] ELSE DIR]

\* lines 38-63: the file is looked at and served
ServeFile(f, k, info) ==
  IF info = "notexist" THEN NotFound
  ELSE IF info = "error" THEN [status |-> 500, body |-> ""]
  ELSE IF info = "dir" THEN NotFound
  ELSE [status |-> 200, body |-> f[k]]

\* lines 27-36: the full path, the security check
ServePath(f, fullPath) ==
  IF ~InsideDeployments(fullPath) THEN NotFound
  ELSE ServeFile(f, Abs(fullPath), Stat(f, fullPath))

\* lines 15-25: the site id and the file path
ServeParts(f, parts) ==
  IF Len(parts) < 2 \/ parts[2] = <<>> THEN NotFound
  ELSE ServePath(f, Join(<<DeploymentsDir, parts[1], parts[2]>>))

\* the response to GET url
StaticResponse(f, url) == ServeParts(f, SplitN2(TrimPrefix(url, <<SEP>>)))

\* the paths of the files of the archives, below the deployment id
FileUrls(id) ==
  {<<SEP>> \o id \o <<SEP>> \o name :
     name \in {<<"a">>, <<"a", DOT, DOT, "b">>, <<"css", SEP, "b">>}}

\* the paths requested in the lifecycle specification
StaticUrls == FileUrls(<<Uuids[1]>>)

Served(url, res) ==
  Respond([Idle EXCEPT !.kind = "static", !.arg = url], res.status, "",
          [content |-> res.body])

StaticFileHandler(s) ==
  /\ Free(s)
  /\ UNCHANGED <<db, fs, nextId, env, now>>
  /\ \E url \in env.urls :
       reqs' = [reqs EXCEPT ![s] = Served(url, StaticResponse(fs, url))]

(***************************************************************************)
(* the lifecycle specification: one client sending every kind of request,  *)
(* one after the other, with failing calls                                 *)
(***************************************************************************)
Clients(slots, bad, faults, forms, ids, urls) ==
  [slots |-> slots, bad |-> bad, faults |-> faults, forms |-> forms,
   ids |-> ids, urls |-> urls, cap |-> MaxIds, ticks |-> 0]

Started ==
  /\ db = <<>>
  /\ fs = InitFs
  /\ reqs = [s \in Slots |-> Idle]
  /\ nextId = 1
  /\ now = 0

Init ==
  /\ Started
  /\ env = Clients({1}, TRUE, TRUE, UploadForms, IdArgs, StaticUrls)

Next ==
  \E s \in Slots :
    \/ UploadHandler(s)
    \/ RollbackHandler(s)
    \/ DeleteDeploymentHandler(s)
    \/ DeleteAllDeploymentsHandler(s)
    \/ ResetSystemHandler(s)
    \/ StaticFileHandler(s)

Spec == Init /\ [][Next]_vars

\* the request of slot s has returned
Returned(s, kind) == reqs[s].kind = kind /\ reqs[s].pc = "done"

\* the request of slot s generated an id and answered with an error
FailedWithId(s) ==
  /\ Returned(s, "upload") \/ Returned(s, "rollback")
  /\ reqs[s].status >= 400
  /\ reqs[s].id # <<>>

\* nothing is on disk at or under deployments/<id>
NoFilesOf(id) ==
  \A k \in DOMAIN fs :
    k # Abs(DestDir(id)) /\ ~StrictlyInside(Abs(DestDir(id)), k)

\* C1: after an upload or a rollback that generated an id has answered with
\* an error, the filesystem holds no deployment directory for that id
NoFilesAfterFailedRequest ==
  \A s \in Slots : FailedWithId(s) => Abs(DestDir(reqs[s].id)) \notin DOMAIN fs

\* unzip opened the archive, so created deployments/<id>, and then failed
ExtractionFailed(s) ==
  /\ Returned(s, "upload")
  /\ reqs[s].msg = "Failed to unzip"
  /\ reqs[s].arch.valid

\* C2: when the extraction fails after deployments/<id> was created, the
\* upload answers with an error, the directory is gone and no record is kept
ExtractionFailureCleansUp ==
  \A s \in Slots :
    ExtractionFailed(s) =>
      /\ reqs[s].status = 500
      /\ ~HasRow(reqs[s].id)
      /\ NoFilesOf(reqs[s].id)

\* the INSERT of an upload failed after unzip had returned nil
InsertFailed(s) ==
  /\ Returned(s, "upload")
  /\ reqs[s].msg = "Failed to save deployment"

\* C3: when the INSERT fails after a successful extraction, the upload
\* answers with an error and neither a record nor a directory exists for
\* the generated id
InsertFailureCleansUp ==
  \A s \in Slots :
    InsertFailed(s) =>
      /\ reqs[s].status = 500
      /\ ~HasRow(reqs[s].id)
      /\ NoFilesOf(reqs[s].id)

\* an upload whose archive holds the file "a" was extracted, and its INSERT
\* failed
InsertFailedAfterExtraction ==
  \E s \in Slots :
    /\ InsertFailed(s)
    /\ reqs[s].arch = Archives[1]
    /\ reqs[s].status = 500


\* the only client, s, sends a new request of the given kind, which is not
\* refused for its method
Takes(s, kind) ==
  /\ env.slots = {s}
  /\ reqs[s].pc \in {"idle", "done"}
  /\ reqs'[s].kind = kind
  /\ reqs'[s].status # 405

\* C11: an upload whose declared filename is empty or missing is answered
\* with 400; no id is generated, the store and the filesystem do not change
UnnamedUploadRejected ==
  [][\A s \in Slots :
       (Takes(s, "upload") /\ reqs'[s].arg = <<>>) =>
         /\ reqs'[s].pc = "done" /\ reqs'[s].status = 400
         /\ reqs'[s].id = <<>>
         /\ db' = db /\ fs' = fs /\ nextId' = nextId]_vars

\* a file part holding a zip archive was posted with an empty filename and
\* the upload was answered with 400
UnnamedArchiveRejected ==
  \E s \in Slots :
    /\ Returned(s, "upload") /\ reqs[s].status = 400
    /\ reqs[s].arg = <<>> /\ reqs[s].arch = Archives[1]

\* C4: in every reachable state every record of the store has a
\* storagePath directory that exists on disk and is not empty
RecordsHaveFiles ==
  \A i \in 1..Len(db) :
    /\ IsDirAt(fs, Abs(db[i].path))
    /\ \E k \in DOMAIN fs : StrictlyInside(Abs(db[i].path), k)

\* one of the segments of the name is ".."
HasTraversalSegment(name) ==
  \E i \in 1..Len(SplitSep(name)) : SplitSep(name)[i] = DotDot

\* the path an entry resolves to under dest
ResolvedPath(dest, e) == Abs(Join(<<dest, e.name>>))

\* a safe entry: no parent-directory segment, resolved strictly inside dest
SafeEntry(dest, e) ==
  /\ ~HasTraversalSegment(e.name)
  /\ StrictlyInside(Abs(dest), ResolvedPath(dest, e))

\* the url /<id>/<name>
UrlOf(id, name) == <<SEP>> \o id \o <<SEP>> \o name

\* the upload of slot s answered 200
Uploaded(s) == Returned(s, "upload") /\ reqs[s].status = 200

\* C8: after a successful upload, GET /<id>/<e.name> answers 200 with the
\* content of e for every safe file entry e of the archive, a name with
\* two dots inside a segment included
RoundTrip ==
  \A s \in Slots :
    Uploaded(s) =>
      \A i \in 1..Len(reqs[s].arch.entries) :
        (/\ ~EntryIsDir(reqs[s].arch.entries[i])
         /\ SafeEntry(DestDir(reqs[s].id), reqs[s].arch.entries[i]))
        => StaticResponse(fs, UrlOf(reqs[s].id, reqs[s].arch.entries[i].name))
             = [status |-> 200, body |-> reqs[s].arch.entries[i].data]

\* C17: of two delete-all requests executed back to back the second
\* answers "No deployments to delete" with deleted_count 0, and the store
\* holds no record after each
DeleteAllTwice ==
  [][\A s \in Slots :
       (Takes(s, "deleteall") /\ Returned(s, "deleteall")) =>
         /\ db = <<>>
         /\ reqs'[s].pc = "done" /\ reqs'[s].status = 200
         /\ reqs'[s].msg = "No deployments to delete"
         /\ reqs'[s].body = [deleted_count |-> 0, failed_deletions |-> <<>>]
         /\ db' = <<>>]_vars

\* a delete-all that removed deployments, and with them the emptied root,
\* was followed by one that found nothing to delete
NothingLeftToDelete ==
  \E s \in Slots :
    /\ Returned(s, "deleteall")
    /\ reqs[s].msg = "No deployments to delete"
    /\ nextId > 1
    /\ Abs(DeploymentsDir) \notin DOMAIN fs

\* C18: delete-all on an empty store answers with the distinct result "No
\* deployments to delete", deleted_count 0, and changes neither the store
\* nor the filesystem: no directory is removed, the root included
DeleteAllOnEmptyStore ==
  [][\A s \in Slots :
       (Takes(s, "deleteall") /\ db = <<>>) =>
         /\ reqs'[s].pc = "done" /\ reqs'[s].status = 200
         /\ reqs'[s].msg = "No deployments to delete"
         /\ reqs'[s].body.deleted_count = 0
         /\ db' = db /\ fs' = fs]_vars

\* delete-all found the store empty while a directory was on disk under
\* the deployments root
EmptyStoreDirectoriesKept ==
  \E s \in Slots :
    /\ Returned(s, "deleteall")
    /\ reqs[s].msg = "No deployments to delete"
    /\ db = <<>>
    /\ \E k \in DOMAIN fs : StrictlyInside(Abs(DeploymentsDir), k)

\* the paths that belong to the upload or rollback that generated id: its
\* temporary zip, its directory and what is inside it
OwnPathOf(id, k) ==
  \/ k = Abs(TempZip(id))
  \/ k = Abs(DestDir(id))
  \/ StrictlyInside(Abs(DestDir(id)), k)

\* the step leaves every path outside the directory of id as it was, and
\* creates nothing outside it but a missing deployments root
OthersKept(id) ==
  IF id = <<>> THEN fs' = fs
  ELSE /\ \A k \in DOMAIN fs : ~OwnPathOf(id, k) => (k \in DOMAIN fs' /\ fs'[k] = fs[k])
       /\ \A k \in DOMAIN fs' \ DOMAIN fs : OwnPathOf(id, k) \/ k = Abs(DeploymentsDir)

\* the entry e is on disk in f
WrittenIn(f, dest, e) ==
  IF EntryIsDir(e) THEN IsDirAt(f, ResolvedPath(dest, e))
  ELSE /\ ResolvedPath(dest, e) \in DOMAIN f
       /\ f[ResolvedPath(dest, e)] = e.data

\* the only client, s, is served a step of an upload
UploadStep(s) ==
  /\ env.slots = {s}
  /\ reqs'[s].kind = "upload"
  /\ reqs'[s].status # 405

\* the record and the files a successful upload r leaves, on top of rows
UploadedOnto(rows, r) ==
  /\ r.id # <<>>
  /\ \A i \in 1..Len(rows) : rows[i].id # r.id
  /\ db' = Append(rows, NewDeployment(r.id, r.arg, <<"deployments", SEP>> \o r.id))
  /\ IsDirAt(fs', Abs(<<"deployments", SEP>> \o r.id))
  /\ \A i \in 1..Len(r.arch.entries) :
       (~EntryIsDir(r.arch.entries[i]) /\ SafeEntry(DestDir(r.id), r.arch.entries[i]))
         => WrittenIn(fs', DestDir(r.id), r.arch.entries[i])

\* C12: a successful upload answers 200 and leaves exactly one new record,
\* with a fresh non-empty id, the uploaded filename and the path
\* deployments/<id>, whose directory exists and holds every safe file of
\* the archive; the records and directories that existed are unchanged
UploadCreatesOneDeployment ==
  [][\A s \in Slots :
       UploadStep(s) =>
         /\ OthersKept(reqs'[s].id)
         /\ IF reqs'[s].pc = "done" /\ reqs'[s].status = 200
            THEN UploadedOnto(db, reqs'[s])
            ELSE db' = db]_vars

\* the site id of GET url: the first segment of the path
SiteId(url) == SplitN2(TrimPrefix(url, <<SEP>>))[1]

(***************************************************************************)
(* the plain specification: one client, valid methods, no failing call     *)
(***************************************************************************)
InitOk ==
  /\ Started
  /\ env = Clients({1}, FALSE, FALSE, UploadForms, IdArgs, StaticUrls)

SpecOk == InitOk /\ [][Next]_vars

\* the only client, s, is served a step of a request of the given kind
StepOf(s, kind) ==
  /\ env.slots = {s}
  /\ reqs'[s].kind = kind
  /\ reqs'[s].status # 405

\* the files under the directory of id, as paths relative to it
FilesOf(f, id) ==
  {SubSeq(k, Len(Abs(DestDir(id))) + 2, Len(k)) :
     k \in {q \in DOMAIN f : StrictlyInside(Abs(DestDir(id)), q) /\ IsFileAt(f, q)}}

\* every file of the deployment id is served from g as it is in f
ServedAsIn(f, g, id) ==
  \A rel \in FilesOf(f, id) :
    StaticResponse(g, UrlOf(id, rel))
      = [status |-> 200, body |-> f[Abs(DestDir(id)) \o <<SEP>> \o rel]]

\* nothing of the deployment id is served from f
NothingServed(f, id) ==
  \A url \in env.urls \cup {UrlOf(id, <<"a">>)} :
    SiteId(url) = id => StaticResponse(f, url).status = 404

\* the step removes the tree at the path of row and nothing else
TreeRemoved(row) ==
  /\ \A k \in DOMAIN fs' : k \in DOMAIN fs /\ fs'[k] = fs[k]
  /\ \A k \in DOMAIN fs :
       k \in DOMAIN fs' <=> ~(k = Abs(row.path) \/ StrictlyInside(Abs(row.path), k))

\* the directories under the directory of id, as paths relative to it
DirsOf(f, id) ==
  {SubSeq(k, Len(Abs(DestDir(id))) + 2, Len(k)) :
     k \in {q \in DOMAIN f : StrictlyInside(Abs(DestDir(id)), q) /\ IsDirAt(f, q)}}

\* in f the tree of the deployment id is a copy of the tree of from
CopyOf(f, id, from) ==
  /\ IsDirAt(f, Abs(DestDir(id)))
  /\ DirsOf(f, id) = DirsOf(f, from)
  /\ FilesOf(f, id) = FilesOf(f, from)
  /\ \A rel \in FilesOf(f, from) :
       f[Abs(DestDir(id)) \o <<SEP>> \o rel] = f[Abs(DestDir(from)) \o <<SEP>> \o rel]

\* the record a successful rollback r adds to rows, and what it answers
RolledBackOnto(rows, r) ==
  /\ db' = Append(rows, NewDeployment(r.id, <<"[ROLLBACK] ">> \o r.src.filename,
                                      <<"deployments", SEP>> \o r.id))
  /\ r.body = [source_deployment |-> r.src, new_deployment |-> db'[Len(db')]]
  /\ r.id # r.src.id /\ r.src.id = r.arg
  /\ \E i \in 1..Len(rows) : rows[i] = r.src

\* C19: a successful rollback of the source id creates exactly one new
\* record, with an id different from the source's and from every id in
\* use, whose directory holds a copy of every file of the source tree; the
\* source record and directory are unchanged, the source stays listed and
\* served
RollbackCopiesSource ==
  [][\A s \in Slots :
       StepOf(s, "rollback") =>
         /\ OthersKept(reqs'[s].id)
         /\ reqs'[s].pc = "copy" /\ reqs[s].pc = "stat" =>
              /\ reqs'[s].id # <<>>
              /\ \A i \in 1..Len(db) : db[i].id # reqs'[s].id
              /\ Abs(DestDir(reqs'[s].id)) \notin DOMAIN fs
         /\ IF reqs'[s].pc = "done" /\ reqs'[s].status = 200
            THEN /\ RolledBackOnto(db, reqs'[s])
                 /\ CopyOf(fs', reqs'[s].id, reqs'[s].arg)
                 /\ ServedAsIn(fs, fs', reqs'[s].arg)
            ELSE db' = db]_vars

\* a deployment with a file in a subdirectory was rolled back
NestedTreeRolledBack ==
  \E s \in Slots :
    /\ Returned(s, "rollback") /\ reqs[s].status = 200
    /\ HasRow(reqs[s].id) /\ HasRow(reqs[s].arg)
    /\ <<"css", SEP, "b">> \in FilesOf(fs, reqs[s].id)
    /\ CopyOf(fs, reqs[s].id, reqs[s].arg)

\* C20: the rollback of an id that has no record answers 404 and creates
\* no record and no directory
RollbackUnknownChangesNothing ==
  [][\A s \in Slots :
       (/\ Takes(s, "rollback")
        /\ reqs'[s].arg # <<>>
        /\ ~HasRow(reqs'[s].arg))
       => /\ reqs'[s].pc = "done" /\ reqs'[s].status = 404
          /\ reqs'[s].id = <<>>
          /\ db' = db /\ fs' = fs /\ nextId' = nextId]_vars

\* the rollback of an id without a record, whose directory is on disk, was
\* answered with 404
RollbackOfUnknownId ==
  \E s \in Slots :
    /\ Returned(s, "rollback") /\ reqs[s].status = 404
    /\ reqs[s].arg # <<>> /\ ~HasRow(reqs[s].arg)
    /\ IsDirAt(fs, Abs(DestDir(reqs[s].arg)))

\* C13: deleting a known id answers 200 and removes its record and its
\* directory tree; afterwards the id is not in the table and GET /<id>/...
\* answers 404, while every other record and directory is unchanged and
\* still served
DeleteRemovesDeployment ==
  [][\A s \in Slots :
       StepOf(s, "delete") =>
         /\ (reqs[s].pc \in {"idle", "done"} /\ HasRow(reqs'[s].arg)) =>
              (reqs'[s].pc = "exec" /\ db' = db /\ fs' = fs)
         /\ reqs[s].pc = "exec" =>
              /\ reqs'[s].pc = "rm" /\ fs' = fs
              /\ \A row \in Rows : row.id # reqs[s].arg <=> \E i \in 1..Len(db') : db'[i] = row
              /\ \A i \in 1..Len(db') : db'[i] \in Rows
         /\ reqs[s].pc = "rm" =>
              /\ reqs'[s].pc = "done" /\ reqs'[s].status = 200
              /\ db' = db /\ ~HasRow(reqs[s].arg)
              /\ TreeRemoved(reqs[s].src)
              /\ NothingServed(fs', reqs[s].arg)
              /\ \A row \in Rows : ServedAsIn(fs, fs', row.id)]_vars

\* a deployment was deleted while another one is still recorded and served
DeletedBesideAnother ==
  \E s \in Slots :
    /\ Returned(s, "delete") /\ reqs[s].status = 200
    /\ ~HasRow(reqs[s].arg) /\ NoFilesOf(reqs[s].arg)
    /\ \E row \in Rows : FilesOf(fs, row.id) # {} /\ ServedAsIn(fs, fs, row.id)

\* C14: deleting an id that has no record answers 404 and changes neither
\* the store nor the filesystem, also when deployments/<id> is on disk
DeleteUnknownChangesNothing ==
  [][\A s \in Slots :
       (/\ StepOf(s, "delete")
        /\ reqs[s].pc \in {"idle", "done"}
        /\ reqs'[s].arg # <<>>
        /\ ~HasRow(reqs'[s].arg))
       => /\ reqs'[s].pc = "done" /\ reqs'[s].status = 404
          /\ db' = db /\ fs' = fs]_vars

\* the delete of an id without a record was answered with 404 while the
\* directory deployments/<id> is on disk
UnknownIdWithDirectory ==
  \E s \in Slots :
    /\ Returned(s, "delete") /\ reqs[s].status = 404
    /\ reqs[s].arg # <<>> /\ ~HasRow(reqs[s].arg)
    /\ IsDirAt(fs, Abs(DestDir(reqs[s].arg)))

\* the JSON response carries the field "warning": only the summary of
\* delete-all has one; the response of delete-one is a message alone
HasWarning(r) ==
  r.kind = "deleteall" /\ "warning" \in DOMAIN r.body /\ r.body.warning

\* C15: in delete-one, when the record is deleted and the removal of the
\* directory tree fails, the request still answers 200, the record is gone
\* and the response surfaces a warning about the cleanup failure
FailedCleanupIsReported ==
  \A s \in Slots :
    (Returned(s, "delete") /\ reqs[s].logged # <<>>) =>
      /\ reqs[s].status = 200
      /\ ~HasRow(reqs[s].arg)
      /\ HasWarning(reqs[s])

\* the step removes the tree at path, or fails and leaves everything
RemovalAttempted(s, path) ==
  \/ fs' = fs /\ reqs'[s].failed = Append(reqs[s].failed, path)
  \/ TreeRemoved([path |-> path]) /\ reqs'[s].failed = reqs[s].failed

\* C16: delete-all on a store with n >= 1 records answers 200 with
\* deleted_count = n and leaves the store empty; it attempts the removal of
\* every directory of its snapshot, also after a removal failed, and
\* reports exactly the paths whose removal failed, with a warning exactly
\* when there are some (a step answered with 500 is a failing store call)
DeleteAllReportsFailures ==
  [][\A s \in Slots :
       (StepOf(s, "deleteall") /\ reqs'[s].status # 500) =>
         /\ (reqs[s].pc \in {"idle", "done"} /\ db # <<>>) =>
              /\ reqs'[s].pc = "exec" /\ reqs'[s].snap = db
              /\ Len(reqs'[s].todo) = Len(db)
              /\ \A i \in 1..Len(db) : reqs'[s].todo[i] = db[i].path
              /\ db' = db /\ fs' = fs
         /\ reqs[s].pc = "exec" =>
              /\ reqs'[s].pc = "rm" /\ reqs'[s].count = Len(reqs[s].snap)
              /\ reqs'[s].todo = reqs[s].todo /\ reqs'[s].failed = <<>>
              /\ db' = <<>> /\ fs' = fs
         /\ (reqs[s].pc = "rm" /\ reqs[s].todo # <<>>) =>
              /\ reqs'[s].pc = "rm" /\ reqs'[s].todo = Tail(reqs[s].todo)
              /\ reqs'[s].count = reqs[s].count /\ reqs'[s].snap = reqs[s].snap
              /\ RemovalAttempted(s, Head(reqs[s].todo))
              /\ db' = <<>>
         /\ (reqs[s].pc = "rm" /\ reqs[s].todo = <<>>) =>
              /\ reqs'[s].pc = "done" /\ reqs'[s].status = 200
              /\ reqs'[s].body =
                   [deleted_count |-> Len(reqs[s].snap),
                    deleted_deployments |-> reqs[s].snap,
                    failed_deletions |-> reqs[s].failed,
                    warning |-> reqs[s].failed # <<>>]
              /\ HasWarning(reqs'[s]) <=> reqs[s].failed # <<>>
              /\ db' = <<>>]_vars

\* delete-all of two deployments: the first removal failed, the second
\* directory was removed all the same, and the summary names the first
RemovedAfterFailure ==
  \E s \in Slots :
    /\ Returned(s, "deleteall") /\ reqs[s].status = 200
    /\ HasWarning(reqs[s]) /\ reqs[s].body.deleted_count = 2
    /\ reqs[s].body.failed_deletions = <<reqs[s].body.deleted_deployments[1].path>>
    /\ IsDirAt(fs, Abs(reqs[s].body.deleted_deployments[1].path))
    /\ Abs(reqs[s].body.deleted_deployments[2].path) \notin DOMAIN fs
    /\ db = <<>>

\* C22: when the INSERT of a rollback fails after the copy succeeded, the
\* request answers 500 after the copied directory was removed; no record
\* is added, the source record and every other path are unchanged
RollbackInsertFailureCleansUp ==
  [][\A s \in Slots :
       (StepOf(s, "rollback") /\ reqs[s].pc = "insert" /\ reqs'[s].status = 500) =>
         /\ reqs'[s].pc = "done"
         /\ reqs'[s].msg = "Failed to save rollback deployment"
         /\ IsDirAt(fs, Abs(DestDir(reqs[s].id)))
         /\ TreeRemoved([path |-> DestDir(reqs[s].id)])
         /\ db' = db
         /\ \A i \in 1..Len(db') : db'[i].id # reqs[s].id
         /\ \E i \in 1..Len(db') : db'[i] = reqs[s].src
         /\ ServedAsIn(fs, fs', reqs[s].arg)]_vars

\* the INSERT of a rollback failed; the copy is gone, the source is there
RollbackInsertFailed ==
  \E s \in Slots :
    /\ Returned(s, "rollback")
    /\ reqs[s].msg = "Failed to save rollback deployment"
    /\ NoFilesOf(reqs[s].id)
    /\ HasRow(reqs[s].arg)
    /\ FilesOf(fs, reqs[s].arg) # {}

\* the request r is an upload or a rollback in flight that has its id
Creating(r) ==
  /\ r.kind \in {"upload", "rollback"}
  /\ r.pc \notin {"idle", "done"}
  /\ r.id # <<>>

\* the directory of the request r is completely written in f: every entry
\* the extractor writes is there, or the tree is a copy of the source
Complete(f, r) ==
  /\ IsDirAt(f, Abs(DestDir(r.id)))
  /\ IF r.kind = "upload"
     THEN \A i \in 1..Len(r.arch.entries) :
            ~EntrySkipped(DestDir(r.id), r.arch.entries[i].name)
              => WrittenIn(f, DestDir(r.id), r.arch.entries[i])
     ELSE CopyOf(f, r.id, r.arg)

\* C27: the record of an upload or a rollback becomes visible only after
\* its directory is completely written: while the request is in flight,
\* and after it failed, the store has no record of its id (what is left
\* is at worst a directory without a record), and the step that inserts
\* the record finds the complete tree on disk and leaves it so
RecordOnlyAfterFiles ==
  [][\A s \in Slots :
       (StepOf(s, "upload") \/ StepOf(s, "rollback")) =>
         /\ (Creating(reqs'[s]) \/ FailedWithId(s)') =>
              \A i \in 1..Len(db') : db'[i].id # reqs'[s].id
         /\ db' # db =>
              /\ reqs[s].pc = "insert"
              /\ reqs'[s].pc = "done" /\ reqs'[s].status = 200
              /\ Len(db') = Len(db) + 1 /\ SubSeq(db', 1, Len(db)) = db
              /\ db'[Len(db')].id = reqs[s].id
              /\ Complete(fs, reqs[s])
              /\ Complete(fs', reqs[s])]_vars

\* an upload failed half-way: a partly written directory, no record
OrphanedDirectory ==
  \E s \in Slots :
    /\ ExtractionFailed(s)
    /\ ~HasRow(reqs[s].id)
    /\ \E k \in DOMAIN fs :
         StrictlyInside(Abs(DestDir(reqs[s].id)), k) /\ fs[k] = PARTIAL

\* unzip was called for the upload of slot s and could not open the archive
MalformedArchive(s) ==
  /\ Returned(s, "upload")
  /\ reqs[s].id # <<>>
  /\ ~reqs[s].arch.valid
  /\ reqs[s].msg \notin {"Could not create temp file", "Failed to save uploaded file"}

\* what the upload of slot s answered
Outcome(s) == [status |-> reqs[s].status, msg |-> reqs[s].msg]

\* what an upload answers when a file of the archive cannot be written
WriteFailureOutcome == [status |-> 500, msg |-> "Failed to unzip"]

\* C29: the upload of a malformed archive answers with an error that is
\* not the one of a failed write during the extraction, and leaves no
\* record and no deployment directory
MalformedArchiveIsDistinct ==
  \A s \in Slots :
    /\ ExtractionFailed(s) => Outcome(s) = WriteFailureOutcome
    /\ MalformedArchive(s) =>
         /\ reqs[s].status >= 400
         /\ Outcome(s) # WriteFailureOutcome
         /\ ~HasRow(reqs[s].id)
         /\ NoFilesOf(reqs[s].id)

\* C10: GET /<id>/<path> answers 404 whenever the store holds no record
\* with that id, in every reachable state
UnknownIdNotFound ==
  \A s \in Slots :
    (Returned(s, "static") /\ ~HasRow(SiteId(reqs[s].arg))) => reqs[s].status = 404

(***************************************************************************)
(* the race specification: two clients whose upload, rollback, delete and  *)
(* delete-all requests interleave step by step, no failing calls           *)
(***************************************************************************)
InitRace ==
  /\ Started
  /\ env = Clients(Slots, FALSE, FALSE, {Form(<<"site.zip">>, Archives[1])},
                   IdArgs \ {<<>>}, {})

NextRace ==
  \E s \in Slots :
    \/ UploadHandler(s)
    \/ RollbackHandler(s)
    \/ DeleteDeploymentHandler(s)
    \/ DeleteAllDeploymentsHandler(s)

SpecRace == InitRace /\ [][NextRace]_vars

\* the client s sends a new request of the given kind: s is the slot whose
\* request changes in the step
Begins(s, kind) ==
  /\ reqs[s].pc \in {"idle", "done"}
  /\ reqs'[s].kind = kind
  /\ \/ reqs'[s].pc # reqs[s].pc
     \/ reqs'[s].kind # reqs[s].kind
     \/ reqs'[s].arg # reqs[s].arg
     \/ reqs'[s].status # reqs[s].status
     \/ reqs'[s].msg # reqs[s].msg

\* the delete of id by slot t has deleted the row
RowDeletedBy(t, id) ==
  /\ reqs[t].kind = "delete" /\ reqs[t].arg = id
  /\ \/ reqs[t].pc = "rm"
     \/ reqs[t].pc = "done" /\ reqs[t].status = 200

\* C24: when a delete of an id has deleted the row before a rollback of
\* the same id looks it up, the rollback answers 404 "Source deployment not
\* found" and creates no record and no directory, also while the delete
\* has not yet removed the files
RollbackAfterDeleteNotFound ==
  [][\A s \in Slots :
       (/\ Begins(s, "rollback")
        /\ \E t \in Slots \ {s} : RowDeletedBy(t, reqs'[s].arg))
       => /\ reqs'[s].pc = "done" /\ reqs'[s].status = 404
          /\ reqs'[s].msg = "Source deployment not found"
          /\ reqs'[s].id = <<>>
          /\ db' = db /\ fs' = fs /\ nextId' = nextId]_vars

\* a rollback was answered 404 while the delete of the same id had deleted
\* the row and not yet removed the directory
RollbackLostToDelete ==
  \E s, t \in Slots :
    /\ Returned(s, "rollback") /\ reqs[s].status = 404
    /\ reqs[t].kind = "delete" /\ reqs[t].pc = "rm" /\ reqs[t].arg = reqs[s].arg
    /\ IsDirAt(fs, Abs(DestDir(reqs[s].arg)))

\* the id x was generated and is over: no record has it, and no request
\* in flight carries it (rows, rs, n: the table, the requests, nextId)
Retired(rows, rs, n, x) ==
  /\ \E i \in 1..(n - 1) : x = <<Uuids[i]>>
  /\ \A i \in 1..Len(rows) : rows[i].id # x
  /\ \A s \in Slots : rs[s].id = x => rs[s].pc = "done"

\* the ids of the model
AllIds == {<<Uuids[i]>> : i \in 1..Len(Uuids)}

\* C26: an id is absent, then active, then absent for ever: an id that
\* was deleted (or whose request failed) is never the id of a record
\* again, no record has an id that was not generated, every record has the
\* path deployments/<id>, and no two records share an id or a path
IdsAreNeverReused ==
  [][/\ \A x \in AllIds :
          Retired(db, reqs, nextId, x) => Retired(db', reqs', nextId', x)
     /\ \A i \in 1..Len(db') :
          /\ \E n \in 1..(nextId' - 1) : db'[i].id = <<Uuids[n]>>
          /\ db'[i].path = <<"deployments", SEP>> \o db'[i].id
          /\ \A j \in 1..Len(db') :
               (db'[i].id = db'[j].id \/ db'[i].path = db'[j].path) => i = j]_vars

\* the first deployment was deleted and its directory removed, and the
\* upload that came after has a record under another id
DeletedAndUploadedAgain ==
  \E s, t \in Slots :
    /\ Returned(s, "delete") /\ reqs[s].status = 200 /\ reqs[s].arg = <<Uuids[1]>>
    /\ Returned(t, "upload") /\ reqs[t].status = 200 /\ reqs[t].id = <<Uuids[2]>>
    /\ db = <<NewDeployment(<<Uuids[2]>>, <<"site.zip">>, DestDir(<<Uuids[2]>>))>>
    /\ NoFilesOf(<<Uuids[1]>>)

\* no request is in flight
Quiescent == \A s \in Slots : reqs[s].pc \in {"idle", "done"}

\* the directories directly under the deployments root
DeploymentDirs ==
  {k \in DOMAIN fs : IsDirAt(fs, k) /\ k # <<SEP>> /\ Dir(k) = Abs(DeploymentsDir)}

\* C5: with no failing call, in every quiescent state every deployment
\* directory under the root has a matching record in the store
DirectoriesHaveRecords ==
  Quiescent =>
    \A k \in DeploymentDirs : \E i \in 1..Len(db) : Abs(db[i].path) = k


(***************************************************************************)
(* the extractor specification: unzip is applied to every archive of at    *)
(* most MaxEntries entries whose names have at most MaxSegs segments       *)
(***************************************************************************)
NameSegs == {<<"a">>, DotDot, <<>>}

SeqsUpTo(S, n) == UNION {[1..k -> S] : k \in 0..n}

\* "a", "..", "/a", "a/", "../a", "a/..", ... and a name with two dots
\* inside a segment
Names ==
  {JoinSep(segs) : segs \in SeqsUpTo(NameSegs, MaxSegs) \ {<<>>}}
    \cup {<<"a", DOT, DOT, "b">>}

EntryNamed(name) ==
  IF Len(name) > 0 /\ name[Len(name)] = SEP THEN Folder(name) ELSE File(name, "DATA")

Zips == {Zip(es) : es \in SeqsUpTo({EntryNamed(n) : n \in Names}, MaxEntries)}

Extracting(id, arch) ==
  [Idle EXCEPT !.kind = "upload", !.method = "POST", !.pc = "unzip", !.id = id, !.arch = arch,
               !.fname = <<"site.zip">>]

InitUnzip ==
  /\ db = <<>>
  /\ nextId = 2
  /\ now = 0
  /\ fs = WithNode(InitFs, Abs(TempZip(<<Uuids[1]>>)), "zip")
  /\ env = Clients({1}, FALSE, FALSE, {}, {}, {})
  /\ \E z \in Zips :
       reqs = [s \in Slots |-> IF s = 1 THEN Extracting(<<Uuids[1]>>, z) ELSE Idle]

NextUnzip ==
  \E s \in Slots :
    \/ UploadUnzipOpen(s)
    \/ UploadUnzipEntry(s)

SpecUnzip == InitUnzip /\ [][NextUnzip]_vars

\* the path k belongs to the upload of some slot: its temporary zip, its
\* destination directory, or a path strictly inside the destination
OwnPath(k) ==
  \E s \in Slots :
    /\ reqs[s].kind = "upload"
    /\ \/ k = Abs(TempZip(reqs[s].id))
       \/ k = Abs(DestDir(reqs[s].id)) /\ fs[k] = DIR
       \/ StrictlyInside(Abs(DestDir(reqs[s].id)), k)

\* C6: for every archive, the extraction creates files and directories
\* only strictly inside deployments/<id> (and the directory itself), also
\* when names carry ".." segments or are absolute; nothing else changes
ExtractionStaysInside ==
  /\ \A k \in DOMAIN fs : OwnPath(k) \/ (k \in DOMAIN InitFs /\ fs[k] = InitFs[k])
  /\ \A k \in DOMAIN InitFs : k \in DOMAIN fs

\* unzip has returned for the upload of slot s
Unzipped(s) ==
  /\ reqs[s].kind = "upload"
  /\ reqs[s].arch.valid
  /\ \/ reqs[s].pc = "insert"
     \/ reqs[s].pc = "done" /\ reqs[s].msg = "Failed to unzip"

\* an archive with a ".." name and an absolute name was extracted, and the
\* entry with the absolute name was written under the destination
TraversalArchiveExtracted ==
  \E s \in Slots :
    /\ Unzipped(s) /\ reqs[s].pc = "insert"
    /\ \E i, j \in 1..Len(reqs[s].arch.entries) :
         /\ HasTraversalSegment(reqs[s].arch.entries[i].name)
         /\ IsAbs(reqs[s].arch.entries[j].name)
         /\ IsFileAt(fs, ResolvedPath(DestDir(reqs[s].id), reqs[s].arch.entries[j]))

\* the entry e is on disk
Written(dest, e) ==
  IF EntryIsDir(e) THEN IsDirAt(fs, ResolvedPath(dest, e))
  ELSE /\ ResolvedPath(dest, e) \in DOMAIN fs
       /\ fs[ResolvedPath(dest, e)] = e.data

\* the archive holds a safe and an unsafe entry
Mixed(dest, arch) ==
  /\ \E i \in 1..Len(arch.entries) : SafeEntry(dest, arch.entries[i])
  /\ \E i \in 1..Len(arch.entries) : ~SafeEntry(dest, arch.entries[i])

\* C7: an archive that mixes safe and unsafe entries is extracted without
\* error and every safe entry is written, whatever the order of the entries
MixedArchiveExtracted ==
  \A s \in Slots :
    (Unzipped(s) /\ Mixed(DestDir(reqs[s].id), reqs[s].arch)) =>
      /\ reqs[s].pc = "insert"
      /\ \A i \in 1..Len(reqs[s].arch.entries) :
           SafeEntry(DestDir(reqs[s].id), reqs[s].arch.entries[i])
             => Written(DestDir(reqs[s].id), reqs[s].arch.entries[i])

(***************************************************************************)
(* the resolver specification: every path of at most MaxUrlSegs segments   *)
(* is requested; one deployment is live, and the working directory may     *)
(* hold a directory deployments2 next to deployments                       *)
(***************************************************************************)
UrlSegs == {<<Uuids[1]>>, <<"a">>, DotDot, <<"deployments", "2">>, <<"x">>, <<>>}

Urls == {<<SEP>> \o JoinSep(segs) : segs \in SeqsUpTo(UrlSegs, MaxUrlSegs)}

LiveFs ==
  WithNode(MkdirAll(InitFs, DestDir(<<Uuids[1]>>)).fs,
           Abs(Join(<<DestDir(<<Uuids[1]>>), <<"a">>>>)), "A1")

SiblingFs ==
  WithNode(MkdirAll(LiveFs, <<"deployments", "2">>).fs,
           Abs(<<"deployments", "2", SEP, "x">>), "SECRET")

InitResolve ==
  /\ now = 0
  /\ db = <<NewDeployment(<<Uuids[1]>>, <<"site.zip">>, DestDir(<<Uuids[1]>>))>>
  /\ nextId = 2
  /\ fs \in {LiveFs, SiblingFs}
  /\ env = Clients({1}, FALSE, FALSE, {}, {}, Urls)
  /\ reqs = [s \in Slots |-> Idle]

NextResolve == \E s \in Slots : StaticFileHandler(s)

SpecResolve == InitResolve /\ [][NextResolve]_vars

\* the candidate path of the two parts of a request path, made absolute
CandidatePath(parts) == Abs(Join(<<DeploymentsDir, parts[1], parts[2]>>))

\* GET url has a candidate path, and it is not strictly inside the root
OutsideRoot(url) ==
  /\ HasSep(TrimPrefix(url, <<SEP>>))
  /\ ~StrictlyInside(Abs(DeploymentsDir),
                     CandidatePath(SplitN2(TrimPrefix(url, <<SEP>>))))

\* C9: the resolver answers 404 for every request whose normalized
\* candidate path is not strictly inside the deployments root, a sibling
\* such as deployments2/x included, whether or not a file exists there
OutsideRootNotFound ==
  \A s \in Slots :
    (Returned(s, "static") /\ OutsideRoot(reqs[s].arg)) => reqs[s].status = 404

(***************************************************************************)
(* the reset specification: two clients whose upload, rollback and reset   *)
(* requests interleave step by step, no failing calls; a reset that runs   *)
(* beside an upload removes the directory of a record it did not delete    *)
(***************************************************************************)
InitReset ==
  /\ Started
  /\ env = Clients(Slots, FALSE, FALSE, {Form(<<"site.zip">>, Archives[1])},
                   IdArgs \ {<<>>}, {})

NextReset ==
  \E s \in Slots :
    \/ UploadHandler(s)
    \/ RollbackHandler(s)
    \/ ResetSystemHandler(s)

SpecReset == InitReset /\ [][NextReset]_vars

\* the rollback of slot s looks at the directory of its source, whose
\* record is in the store
StatsSource(s) ==
  /\ reqs[s].kind = "rollback" /\ reqs[s].pc = "stat"
  /\ reqs'[s].pc # "stat"
  /\ \E i \in 1..Len(db) : db[i] = reqs[s].src

\* C21: the rollback of an id whose record exists while its directory is
\* not on disk answers 404 "Source deployment files no longer exist"; no
\* id is generated, no record and no directory is created, and the source
\* record stays in the store
RollbackOfMissingFiles ==
  [][\A s \in Slots :
       (StatsSource(s) /\ Abs(reqs[s].src.path) \notin DOMAIN fs) =>
         /\ reqs'[s].pc = "done" /\ reqs'[s].status = 404
         /\ reqs'[s].msg = "Source deployment files no longer exist"
         /\ reqs'[s].id = <<>>
         /\ db' = db /\ fs' = fs /\ nextId' = nextId]_vars

\* a rollback was refused for the missing files of a source whose record
\* is in the store
SourceFilesMissing ==
  \E s \in Slots :
    /\ Returned(s, "rollback")
    /\ reqs[s].msg = "Source deployment files no longer exist"
    /\ HasRow(reqs[s].arg)
    /\ Abs(DestDir(reqs[s].arg)) \notin DOMAIN fs

(***************************************************************************)
(* the chain specification: one client uploads a site and rolls back what  *)
(* is in the store, rollbacks of rollbacks included, up to MaxChain ids    *)
(***************************************************************************)
InitChain ==
  /\ Started
  /\ env = [Clients({1}, FALSE, FALSE,
                    {Form(<<"site.zip">>, Archives[1]), Form(<<"site.zip">>, Archives[3]),
                     Form(<<"old.zip">>, Archives[3])},
                    {<<Uuids[i]>> : i \in 1..MaxChain}, {})
              EXCEPT !.cap = MaxChain]

NextChain ==
  \E s \in Slots :
    \/ UploadHandler(s)
    \/ RollbackHandler(s)

SpecChain == InitChain /\ [][NextChain]_vars

\* C23: the record a rollback adds has the filename "[ROLLBACK] " followed
\* by the filename of the record of its source, also when the source is
\* itself the record of a rollback: one marker more for every rollback
RollbackMarksFilename ==
  [][\A s \in Slots :
       (StepOf(s, "rollback") /\ reqs[s].pc = "insert" /\ reqs'[s].status = 200) =>
         /\ HasRow(reqs[s].arg)
         /\ Len(db') = Len(db) + 1
         /\ db'[Len(db')].id = reqs[s].id
         /\ db'[Len(db')].filename = <<"[ROLLBACK] ">> \o RowOf(reqs[s].arg).filename
         /\ reqs'[s].body.new_deployment = db'[Len(db')]]_vars

\* the rollback of an upload was rolled back: its record has two markers
RollbackOfRollback ==
  \E s \in Slots :
    /\ Returned(s, "rollback") /\ reqs[s].status = 200
    /\ HasRow(reqs[s].arg) /\ HasRow(reqs[s].id)
    /\ RowOf(reqs[s].arg).filename = <<"[ROLLBACK] ", "site.zip">>
    /\ RowOf(reqs[s].id).filename = <<"[ROLLBACK] ", "[ROLLBACK] ", "site.zip">>

(***************************************************************************)
(* the create specification: two clients whose uploads and rollbacks       *)
(* interleave step by step, no failing calls, up to MaxChain ids           *)
(***************************************************************************)
InitCreate ==
  /\ Started
  /\ env = [Clients(Slots, FALSE, FALSE,
                    {Form(<<"site.zip">>, Archives[1]), Form(<<"site.zip">>, Archives[3])},
                    {<<Uuids[i]>> : i \in 1..MaxChain}, {})
              EXCEPT !.cap = MaxChain]

NextCreate ==
  \E s \in Slots :
    \/ UploadHandler(s)
    \/ RollbackHandler(s)

SpecCreate == InitCreate /\ [][NextCreate]_vars

\* the request r generated an id and has returned
Created(r) ==
  /\ r.kind \in {"upload", "rollback"} /\ r.pc = "done"
  /\ r.id # <<>>

\* the request r has succeeded: its record is in the table rows, its
\* directory in f holds every entry of the archive, or a copy of the source
Succeeded(rows, f, r) ==
  /\ r.status = 200
  /\ \E i \in 1..Len(rows) :
       rows[i].id = r.id /\ rows[i].path = <<"deployments", SEP>> \o r.id
  /\ IsDirAt(f, Abs(DestDir(r.id)))
  /\ IF r.kind = "upload"
     THEN \A i \in 1..Len(r.arch.entries) : WrittenIn(f, DestDir(r.id), r.arch.entries[i])
     ELSE CopyOf(f, r.id, r.arg)

\* the step keeps the directory dir and what is inside it
TreeKept(dir) ==
  \A k \in DOMAIN fs :
    (k = dir \/ StrictlyInside(dir, k)) => (k \in DOMAIN fs' /\ fs'[k] = fs[k])

\* the step changes nothing but the temporary file tmp, the directory dir
\* and what is inside it
OnlyChanges(tmp, dir) ==
  \A k \in DOMAIN fs \cup DOMAIN fs' :
    (k # tmp /\ k # dir /\ ~StrictlyInside(dir, k)) =>
      (k \in DOMAIN fs /\ k \in DOMAIN fs' /\ fs'[k] = fs[k])

\* the step changes no path of a deployment that is recorded, and no path
\* at all but those of the id of one request in flight
OneCreatorWrites ==
  \/ fs' = fs
  \/ /\ \A i \in 1..Len(db) : TreeKept(Abs(db[i].path))
     /\ \E s \in Slots :
          /\ reqs'[s].id # <<>>
          /\ OnlyChanges(Abs(TempZip(reqs'[s].id)), Abs(DestDir(reqs'[s].id)))

\* the step keeps the records, and adds at most the record of a request
\* that returns
OneCreatorInserts ==
  \/ db' = db
  \/ /\ Len(db') = Len(db) + 1 /\ SubSeq(db', 1, Len(db)) = db
     /\ \A i \in 1..Len(db) : db[i].id # db'[Len(db')].id
     /\ \E s \in Slots : reqs'[s].pc = "done" /\ reqs'[s].id = db'[Len(db')].id

\* C25: concurrent uploads and rollbacks, each with its own generated id,
\* all succeed under every interleaving: each returns with its own record
\* and its own complete directory, and no step of one overwrites or
\* removes a file or a record of another, so what each left stays
CreatesNeverConflict ==
  [][/\ OneCreatorWrites
     /\ OneCreatorInserts
     /\ \A s \in Slots :
          (reqs[s].pc # "done" /\ Created(reqs'[s])) => Succeeded(db', fs', reqs'[s])
     /\ \A s, t \in Slots :
          (s # t /\ reqs'[s].id # <<>>) => reqs'[s].id # reqs'[t].id]_vars

\* an upload and a rollback ran side by side and both succeeded
CreatedSideBySide ==
  \E s, t \in Slots :
    /\ Returned(s, "upload") /\ reqs[s].status = 200
    /\ Returned(t, "rollback") /\ reqs[t].status = 200
    /\ reqs[t].arg # reqs[s].id
    /\ reqs[s].id = <<Uuids[2]>> /\ reqs[t].id = <<Uuids[3]>>
    /\ Len(db) = 3 /\ db[2].id = reqs[t].id /\ db[3].id = reqs[s].id

(***************************************************************************)
(* the list specification: one client uploads, rolls back, deletes and     *)
(* lists while the clock goes on, or does not, between two requests        *)
(***************************************************************************)
InitList ==
  /\ Started
  /\ env = [Clients({1}, TRUE, TRUE, {Form(<<"site.zip">>, Archives[1])},
                    {<<Uuids[i]>> : i \in 1..MaxChain}, {})
              EXCEPT !.cap = MaxChain, !.ticks = MaxTicks]

NextList ==
  \/ Tick
  \/ \E s \in Slots :
       \/ UploadHandler(s)
       \/ RollbackHandler(s)
       \/ DeleteDeploymentHandler(s)
       \/ ListDeploymentsHandler(s)

SpecList == InitList /\ [][NextList]_vars

\* the list holds every row of the table exactly once
EveryRowOnce(rows, list) ==
  /\ Len(list) = Len(rows)
  /\ \A i \in 1..Len(rows) : \E j \in 1..Len(list) : list[j] = rows[i]

\* the place of the record rec in the table rows
PlaceIn(rows, rec) == CHOOSE i \in 1..Len(rows) : rows[i] = rec

\* the list is by timestamp, the newest first, and records of equal
\* timestamp are in the order of their insertion in rows
NewestFirstStable(rows, list) ==
  \A i, j \in 1..Len(list) :
    i < j =>
      \/ list[i].timestamp > list[j].timestamp
      \/ /\ list[i].timestamp = list[j].timestamp
         /\ PlaceIn(rows, list[i]) < PlaceIn(rows, list[j])

\* the only client, s, is answered 200 by the list handler
Listed(s) == Takes(s, "list") /\ reqs'[s].status = 200

\* C28: list returns every record of the store exactly once, the newest
\* first by timestamp and records of equal timestamp in insertion order,
\* and changes neither the store nor the filesystem
ListIsNewestFirstStable ==
  [][\A s \in Slots :
       Listed(s) =>
         /\ db' = db /\ fs' = fs
         /\ db # <<>> =>
              /\ EveryRowOnce(db, reqs'[s].body.deployments)
              /\ NewestFirstStable(db, reqs'[s].body.deployments)]_vars

\* the segments of the request path url, without its leading slash
UrlSegments(url) == SplitSep(TrimPrefix(url, <<SEP>>))

\* the path has no segment after the one of the deployment id
NoIdSegment(url) == Len(UrlSegments(url)) = 1

\* nothing follows the slash after the deployment id
EmptyRemainder(url) == Len(UrlSegments(url)) = 2 /\ UrlSegments(url)[2] = <<>>

\* the path GET url resolves to: deployments/<id>/<remainder>, normalized
Resolved(url) ==
  Abs(Clean(<<"deployments", SEP>> \o UrlSegments(url)[1] \o <<SEP>>
              \o JoinSep(Tail(UrlSegments(url)))))

\* C30: the resolver answers 404 for a path without a deployment-id
\* segment, for a path with nothing after the id and for a path that
\* resolves to a directory; it answers 200 only when the resolved path is
\* an existing regular file, and then with the content of that file
StaticServesRegularFilesOnly ==
  \A s \in Slots :
    Returned(s, "static") =>
      /\ (NoIdSegment(reqs[s].arg) \/ EmptyRemainder(reqs[s].arg)) => reqs[s].status = 404
      /\ (/\ ~NoIdSegment(reqs[s].arg)
          /\ Stat(fs, Resolved(reqs[s].arg)) = "dir") => reqs[s].status = 404
      /\ reqs[s].status = 200 =>
           /\ ~NoIdSegment(reqs[s].arg) /\ ~EmptyRemainder(reqs[s].arg)
           /\ IsFileAt(fs, Resolved(reqs[s].arg))
           /\ reqs[s].body = [content |-> fs[Resolved(reqs[s].arg)]]

\* a path of three segments that resolves to the directory of the live
\* deployment was answered with 404
DirectoryNotServed ==
  \E s \in Slots :
    /\ Returned(s, "static") /\ reqs[s].status = 404
    /\ Len(UrlSegments(reqs[s].arg)) = 3
    /\ Resolved(reqs[s].arg) = Abs(DestDir(<<Uuids[1]>>))
    /\ IsDirAt(fs, Resolved(reqs[s].arg))

\* nothing is on disk under the deployments root of f, which is a directory
EmptyRoot(f) ==
  /\ IsDirAt(f, Abs(DeploymentsDir))
  /\ \A k \in DOMAIN f : ~StrictlyInside(Abs(DeploymentsDir), k)

\* C31: system reset answers 200, leaves the store with 0 records, removes
\* every deployment directory and leaves an existing, empty deployments
\* root; the deleted_count it reports is the number of records it removed
ResetRemovesEverything ==
  [][\A s \in Slots :
       StepOf(s, "reset") =>
         /\ reqs[s].pc \in {"idle", "done"} =>
              /\ reqs'[s].pc = "exec" /\ reqs'[s].count = Len(db)
              /\ db' = db /\ fs' = fs
         /\ reqs[s].pc = "exec" =>
              /\ reqs'[s].pc = "rm" /\ reqs'[s].count = reqs[s].count
              /\ db' = <<>> /\ Len(db) - Len(db') = reqs[s].count
              /\ fs' = fs
         /\ reqs[s].pc = "rm" =>
              /\ reqs'[s].pc = "mkdir" /\ reqs'[s].count = reqs[s].count
              /\ \A k \in DOMAIN fs' :
                   /\ k \in DOMAIN fs /\ fs'[k] = fs[k]
                   /\ k # Abs(DeploymentsDir)
                   /\ ~StrictlyInside(Abs(DeploymentsDir), k)
              /\ db' = <<>>
         /\ reqs[s].pc = "mkdir" =>
              /\ reqs'[s].pc = "done" /\ reqs'[s].status = 200
              /\ reqs'[s].body.deleted_count = reqs[s].count
              /\ EmptyRoot(fs')
              /\ \A k \in DOMAIN fs : k \in DOMAIN fs' /\ fs'[k] = fs[k]
              /\ db' = <<>>]_vars

\* a reset of a store of two deployments has answered: it reports two
\* deleted records, the store is empty and so is the deployments root
ResetOfTwoDeployments ==
  \E s \in Slots :
    /\ Returned(s, "reset") /\ reqs[s].status = 200
    /\ reqs[s].body.deleted_count = 2
    /\ db = <<>> /\ nextId = 3
    /\ EmptyRoot(fs)

(***************************************************************************)
(* the verbs specification: one client sends every verb to every endpoint, *)
(* no failing calls                                                        *)
(***************************************************************************)
InitVerbs ==
  /\ Started
  /\ env = Clients({1}, TRUE, FALSE,
                   {NoForm, Form(<<"site.zip">>, Archives[1]),
                    Form(<<"site.zip">>, Archives[3])},
                   IdArgs, {})

NextVerbs ==
  \E s \in Slots :
    \/ UploadHandler(s)
    \/ RollbackHandler(s)
    \/ DeleteDeploymentHandler(s)
    \/ DeleteAllDeploymentsHandler(s)
    \/ ResetSystemHandler(s)
    \/ ListDeploymentsHandler(s)
    \/ DeploymentsRoute(s)

SpecVerbs == InitVerbs /\ [][NextVerbs]_vars

\* the verbs of an endpoint: upload POST, list GET, delete and delete-all
\* DELETE, rollback and reset POST; the path /deployments takes those of
\* list and delete-all
VerbsOf(kind) ==
  IF kind \in {"upload", "rollback", "reset"} THEN {"POST"}
  ELSE IF kind = "list" THEN {"GET"}
  ELSE IF kind \in {"delete", "deleteall"} THEN {"DELETE"}
  ELSE {"GET", "DELETE"}

\* the only client, s, sends a request with a verb that is not the one of
\* the endpoint
SendsWrongVerb(s) ==
  /\ env.slots = {s}
  /\ reqs[s].pc \in {"idle", "done"}
  /\ reqs'[s].method \notin VerbsOf(reqs'[s].kind)

\* C32: every endpoint called with a verb other than its mandatory one
\* answers 405 and changes neither the store nor the filesystem
WrongVerbRefused ==
  [][\A s \in Slots :
       SendsWrongVerb(s) =>
         /\ reqs'[s].pc = "done" /\ reqs'[s].status = 405
         /\ db' = db /\ fs' = fs /\ nextId' = nextId]_vars

\* a reset sent with DELETE was refused while the store held a record and
\* its directory was on disk
ResetWithDeleteRefused ==
  \E s \in Slots :
    /\ Returned(s, "reset") /\ reqs[s].method = "DELETE"
    /\ reqs[s].status = 405
    /\ db # <<>> /\ IsDirAt(fs, Abs(db[1].path))

\* the only client, s, sends DELETE /deployments/ or POST /rollback/: the
\* path of the request ends where the id begins
SendsNoId(s) ==
  /\ env.slots = {s}
  /\ reqs[s].pc \in {"idle", "done"}
  /\ reqs'[s].kind \in {"delete", "rollback"}
  /\ reqs'[s].method \in VerbsOf(reqs'[s].kind)
  /\ reqs'[s].arg = <<>>

\* C33: a delete or a rollback whose path carries no id answers 400
\* "Deployment ID required" and changes neither the store nor the
\* filesystem
MissingIdRefused ==
  [][\A s \in Slots :
       SendsNoId(s) =>
         /\ reqs'[s].pc = "done" /\ reqs'[s].status = 400
         /\ reqs'[s].msg = "Deployment ID required"
         /\ db' = db /\ fs' = fs /\ nextId' = nextId]_vars

\* DELETE /deployments/ was refused while the store held a record
DeleteWithoutIdRefused ==
  \E s \in Slots :
    /\ Returned(s, "delete") /\ reqs[s].method = "DELETE"
    /\ reqs[s].arg = <<>> /\ reqs[s].status = 400
    /\ db # <<>>

(***************************************************************************)
(* the progress specification: two clients send requests of every kind,    *)
(* whose steps interleave, with failing calls; a request that was accepted *)
(* is served by its own goroutine, which keeps running                     *)
(***************************************************************************)
InitLive ==
  /\ Started
  /\ env = Clients(Slots, FALSE, TRUE, {Form(<<"site.zip">>, Archives[1])},
                   {<<Uuids[1]>>}, {UrlOf(<<Uuids[1]>>, <<"a">>)})

NextLive ==
  \E s \in Slots :
    \/ UploadHandler(s)
    \/ RollbackHandler(s)
    \/ DeleteDeploymentHandler(s)
    \/ DeleteAllDeploymentsHandler(s)
    \/ ResetSystemHandler(s)
    \/ ListDeploymentsHandler(s)
    \/ StaticFileHandler(s)

\* the request of slot s is being served
InFlight(s) == reqs[s].pc \notin {"idle", "done"}

\* the next step of the request of slot s
Continue(s) ==
  /\ InFlight(s)
  /\ \/ UploadHandler(s)
     \/ RollbackHandler(s)
     \/ DeleteDeploymentHandler(s)
     \/ DeleteAllDeploymentsHandler(s)
     \/ ResetSystemHandler(s)

\* the goroutine of a request keeps running: the handlers take no lock,
\* read no channel and wait for nothing, so a request that stays in flight
\* goes on taking steps
KeepsRunning(s) == []<>(~InFlight(s)) \/ []<><<Continue(s)>>_vars

SpecLive ==
  InitLive /\ [][NextLive]_vars /\ \A s \in Slots : KeepsRunning(s)

\* C34: every request eventually completes with a response, under every
\* interleaving with the other client's requests and under every injected
\* failure, whatever the other request does or does not do
RequestsComplete ==
  \A s \in Slots : InFlight(s) ~> (reqs[s].pc = "done" /\ reqs[s].status >= 200)

\* a rollback was answered with the failure of its copy while the
\* delete-all of the other client was removing directories
FailedBesideDeleteAll ==
  \E s, t \in Slots :
    /\ Returned(s, "rollback") /\ reqs[s].status = 500
    /\ reqs[s].msg = "Failed to copy deployment files"
    /\ reqs[t].kind = "deleteall" /\ reqs[t].pc = "rm"

\* the records the delete or delete-all r is deleting
RowsOf(r) ==
  IF r.kind = "delete" THEN {r.src} ELSE {r.snap[i] : i \in 1..Len(r.snap)}

\* the paths whose directory the delete or delete-all r has removed
RemovedBy(r) ==
  IF r.kind = "delete"
  THEN IF r.pc = "done" /\ r.status = 200 /\ r.logged = <<>> THEN {r.src.path} ELSE {}
  ELSE IF r.pc = "rm" \/ (r.pc = "done" /\ r.status = 200)
       THEN {row.path : row \in RowsOf(r)}
              \ ({r.todo[i] : i \in 1..Len(r.todo)} \cup {r.failed[i] : i \in 1..Len(r.failed)})
       ELSE {}

\* C35: in delete-one and in delete-all the rows are deleted before any
\* directory is removed; when the deletion of the rows fails the request
\* answers 500 and no directory is removed; so no step of a delete leaves
\* a record whose directory that delete has removed
RowsDeletedBeforeFiles ==
  [][\A s \in Slots :
       (env.slots = {s} /\ reqs'[s].kind \in {"delete", "deleteall"}) =>
         /\ fs' # fs =>
              /\ reqs[s].kind = reqs'[s].kind /\ reqs[s].pc = "rm"
              /\ \A i \in 1..Len(db) : db[i] \notin RowsOf(reqs[s])
              /\ db' = db
         /\ (reqs[s].kind = reqs'[s].kind /\ reqs[s].pc = "exec" /\ db' = db) =>
              /\ reqs'[s].pc = "done" /\ reqs'[s].status = 500
              /\ fs' = fs
         /\ \A i \in 1..Len(db') : db'[i].path \notin RemovedBy(reqs'[s])]_vars

\* the DELETE of a delete-all of two deployments failed: the request has
\* answered 500, both records and both directories are still there
DeleteAllExecFailed ==
  \E s \in Slots :
    /\ Returned(s, "deleteall") /\ reqs[s].status = 500
    /\ reqs[s].msg = "Failed to delete deployments from database"
    /\ Len(db) = 2
    /\ \A i \in 1..Len(db) : IsDirAt(fs, Abs(db[i].path))

\* the path the file entry e of the archive of the upload r is written to
TargetOf(r, e) == Abs(Join(<<DestDir(r.id), e.name>>))

\* unzip returns an error from the entry e it was at: what was on disk
\* stays, but for the file of e itself, and no later entry is written
ReturnsAtOnce(r, e) ==
  /\ \A q \in DOMAIN fs :
       (q # Abs(TempZip(r.id)) /\ q # TargetOf(r, e)) => (q \in DOMAIN fs' /\ fs'[q] = fs[q])
  /\ \A j \in (r.idx + 1)..Len(r.arch.entries) :
       IsFileAt(fs', TargetOf(r, r.arch.entries[j])) =>
         \/ IsFileAt(fs, TargetOf(r, r.arch.entries[j]))
         \/ TargetOf(r, r.arch.entries[j]) = TargetOf(r, e)

\* C36: when the writing of a file entry fails, unzip returns the error at
\* once: the loop goes on to the next entry only after the entry was
\* written (or skipped, or was a directory), no later entry is written, and
\* the entries written before the failure are on disk when unzip returns
FailedEntryEndsExtraction ==
  [][\A s \in Slots :
       (env.slots = {s} /\ reqs[s].kind = "upload" /\ reqs[s].pc = "entry") =>
         /\ reqs'[s].pc # "done" =>
              \/ EntryIsDir(reqs[s].arch.entries[reqs[s].idx])
              \/ EntrySkipped(DestDir(reqs[s].id), reqs[s].arch.entries[reqs[s].idx].name)
              \/ /\ IsFileAt(fs', TargetOf(reqs[s], reqs[s].arch.entries[reqs[s].idx]))
                 /\ fs'[TargetOf(reqs[s], reqs[s].arch.entries[reqs[s].idx])]
                      = reqs[s].arch.entries[reqs[s].idx].data
         /\ reqs'[s].pc = "done" =>
              /\ reqs'[s].status = 500 /\ reqs'[s].msg = "Failed to unzip"
              /\ ReturnsAtOnce(reqs[s], reqs[s].arch.entries[reqs[s].idx])]_vars

\* the extraction of the archive of the files a and a/b failed at its
\* second entry: the first is on disk, the second is not
FirstEntryKept ==
  \E s \in Slots :
    /\ Returned(s, "upload") /\ reqs[s].msg = "Failed to unzip"
    /\ reqs[s].arch = Archives[6]
    /\ IsFileAt(fs, Abs(DestDir(reqs[s].id)) \o <<SEP, "a">>)
    /\ fs[Abs(DestDir(reqs[s].id)) \o <<SEP, "a">>] = "A1"

\* C37: the deployment returned in the body of a successful upload is
\* identical in its four fields, id, filename, timestamp and path, to the
\* record persisted in the store, which is what list returns for that id
UploadReturnsStoredRecord ==
  [][\A s \in Slots :
       (/\ reqs[s].kind = "upload" /\ reqs[s].pc = "insert"
        /\ reqs'[s].pc = "done" /\ reqs'[s].status = 200)
       => \E i \in 1..Len(db') :
            /\ db'[i].id = reqs'[s].body.id
            /\ db'[i].filename = reqs'[s].body.filename
            /\ db'[i].timestamp = reqs'[s].body.timestamp
            /\ db'[i].path = reqs'[s].body.path]_vars

(***************************************************************************)
(* the bulk specification: two clients whose upload and rollback requests   *)
(* interleave step by step with the delete-all requests of the first       *)
(* client, no failing calls                                                *)
(***************************************************************************)
NextBulk ==
  \/ \E s \in Slots :
       \/ UploadHandler(s)
       \/ RollbackHandler(s)
  \/ DeleteAllDeploymentsHandler(1)

SpecBulk == InitRace /\ [][NextBulk]_vars

\* C38: in every delete-all response "Bulk deletion completed", under any
\* interleaving with concurrent uploads and rollbacks, deleted_count is the
\* number of entries of deleted_deployments, so that every record the
\* request removed from the store had the removal of its directory attempted
BulkCountMatchesList ==
  \A s \in Slots :
    (Returned(s, "deleteall") /\ reqs[s].msg = "Bulk deletion completed")
    => reqs[s].body.deleted_count = Len(reqs[s].body.deleted_deployments)

\* C39: for any deployment id at most one delete request reports success:
\* of two concurrent deletes of the same id, one answers 200 and the other
\* answers 404
OneDeleteSucceeds ==
  \A s, t \in Slots :
    (/\ Returned(s, "delete") /\ reqs[s].status = 200
     /\ Returned(t, "delete") /\ reqs[t].status = 200
     /\ reqs[s].arg = reqs[t].arg)
    => s = t

\* the files of the one archive the clients of the race and of the reset
\* specification upload
ArchiveFiles == {Archives[1].entries[i].name : i \in 1..Len(Archives[1].entries)}

\* the source directory a rollback finds on disk holds the files of the
\* archive: a record is inserted only after its directory is complete, and
\* a directory is removed as a whole
LookedUpSourceIsWhole ==
  [][\A s \in Slots :
       (/\ reqs[s].kind = "rollback" /\ reqs[s].pc = "stat"
        /\ reqs'[s].pc = "copy")
       => FilesOf(fs, reqs[s].src.id) = ArchiveFiles]_vars

\* C40: whenever a rollback reports success, the directory of the new
\* deployment holds every file the source directory held when the rollback
\* looked the source up, also when a delete, a delete-all or a reset that
\* removes the source runs beside the copy
RollbackSuccessHoldsSource ==
  [][\A s \in Slots :
       (/\ reqs[s].kind = "rollback" /\ reqs[s].pc = "insert"
        /\ reqs'[s].pc = "done" /\ reqs'[s].status = 200)
       => ArchiveFiles \subseteq FilesOf(fs', reqs[s].id)]_vars

====
